---- MODULE Spec2Model ----
(***************************************************************************)
(* MicroSpot quadruped control core: the trot gait controller of           *)
(* src/src/gait.py (GaitController), driven through its control surface by *)
(* request contexts, with its background tick loop threads.                *)
(*                                                                         *)
(* Number representation.  The Python code computes in floats.  Here       *)
(*   - logical angles handed to set_servo are whole degrees (Python int),  *)
(*   - intermediate angles are fixed point, 1/1000 degree ("mdeg"),        *)
(*   - phases, rates, gains and ratios are fixed point, 1/1000 ("permille")*)
(*   - times are milliseconds.                                             *)
(* math.sin / math.cos are computed by Bhaskara's rational approximation   *)
(* (absolute error < 0.0022), int() truncates toward zero as in Python.    *)
(***************************************************************************)
EXTENDS Integers, Sequences, FiniteSets, TLC

\* ------------------------------------------------------------------------
\* Fixed point
\* ------------------------------------------------------------------------
Milli == 1000

\* Division truncating toward zero (b > 0): Python's int(a / b).
DivZ(a, b) == IF a >= 0 THEN a \div b ELSE -((-a) \div b)

\* int(x) of an angle held in mdeg: whole degrees, truncated toward zero.
ToInt(x) == DivZ(x, Milli)

\* math.sin(p * math.pi) for p in [0, 1], p and the result in permille.
SinPi(p) ==
    LET q == p * (Milli - p)
    IN  (4 * q) \div ((1250000 - q) \div Milli)

\* math.cos(p * math.pi) for p in [0, 1], p and the result in permille.
CosPi(p) == IF p <= 500 THEN SinPi(p + 500) ELSE -SinPi(p - 500)

\* ------------------------------------------------------------------------
\* Gait constants (gait.py module level)
\* ------------------------------------------------------------------------
DEFAULT_CYCLE_TIME == 1000           \* ms
DEFAULT_KNEE_BEND == 40              \* degrees
DEFAULT_ANKLE_COMPENSATION == 1300   \* permille (1.3)
GAIT_UPDATE_RATE == 20               \* ms
SINGLE_STEP_UPDATE_RATE == 30        \* ms
KNEE_FORWARD_RATIO == 700            \* permille (0.7)
ANKLE_FORWARD_RATIO == 300           \* permille (0.3)
ANKLE_LIFT_RATIO == 800              \* permille (0.8)
HIP_SWING_ANGLE == 0                 \* degrees
LATERAL_STEP_ANGLE == 15             \* degrees
DEFAULT_SPEED == 1000                \* permille (1.0)
DEFAULT_KP == 500                    \* permille (0.5), balance.py
INTERP_SPEED == 1000                 \* permille (1.0): _interp_speed
HIP_NEUTRAL == 90                    \* degrees: logical neutral
SERVO_INIT == 90                     \* degrees: servo_angles at start-up

Legs == {"FL", "FR", "RL", "RR"}

\* self.legs: the channel of each joint, and the side of each leg.
legs ==
    [ FL |-> [hip |-> 0, knee |-> 1, ankle |-> 2, side |-> "left"],
      FR |-> [hip |-> 3, knee |-> 4, ankle |-> 5, side |-> "right"],
      RL |-> [hip |-> 6, knee |-> 7, ankle |-> 8, side |-> "left"],
      RR |-> [hip |-> 9, knee |-> 10, ankle |-> 11, side |-> "right"] ]

Channels == 0 .. 11

\* Diagonal pairs of the trot, in the order the code iterates them.
pair_a == <<"FL", "RR">>
pair_b == <<"FR", "RL">>

\* Iteration order of the dicts self.legs / self.stand_angles.
LegOrder == <<"FL", "FR", "RL", "RR">>

\* Order in which one tick computes and writes the legs: pair_a, then pair_b.
TickOrder == pair_a \o pair_b

\* self._rear_ankle_comp
rear_ankle_comp == [FL |-> 0, FR |-> 0, RL |-> 0, RR |-> 0]

\* A stand pose whose ankle compensation is rounded to the nearest degree:
\* a variant the statement of C15 has to tell apart from the code.
StandOfRounded(knee_bend) ==
    LET ankle_comp == DivZ(knee_bend * DEFAULT_ANKLE_COMPENSATION + 500, Milli)
    IN  [l \in Legs |->
            [hip |-> HIP_NEUTRAL, knee |-> HIP_NEUTRAL - knee_bend,
             ankle |-> HIP_NEUTRAL + ankle_comp + rear_ankle_comp[l]]]

\* The stand pose GaitController builds from a knee bend (already clamped):
\* __init__ and set_stand_height build the same dict.
StandOf(knee_bend) ==
    LET ankle_comp == DivZ(knee_bend * DEFAULT_ANKLE_COMPENSATION, Milli)
        knee_angle == HIP_NEUTRAL - knee_bend
        ankle_angle == HIP_NEUTRAL + ankle_comp
    IN  [l \in Legs |->
            [hip |-> HIP_NEUTRAL, knee |-> knee_angle,
             ankle |-> ankle_angle + rear_ankle_comp[l]]]

\* ------------------------------------------------------------------------
\* Bounds of the model and its input sets
\* ------------------------------------------------------------------------
\* Loop threads that can exist at the same time (finished ones are reused).
MaxThreads == 2

\* Request contexts calling the control surface.
Ctx == {"c1", "c2"}
Threads == 1 .. MaxThreads
None == 0

Directions == {"forward", "backward"}

VARIABLES
    running,         \* self.running
    thread,          \* self.thread: a thread id, or None
    direction,       \* self.direction
    params,          \* self.params (cycle_time ms, speed permille, degrees)
    stand_angles,    \* self.stand_angles: leg -> [hip, knee, ankle] degrees
    balance,         \* self.balance is not None
    use_balance,     \* self.use_balance
    kp,              \* self.balance.kp, permille
    turn_rate,       \* self.turn_rate, permille
    lateral_rate,    \* self.lateral_rate, permille
    current_angles,  \* self._current_angles: channel -> mdeg (partial)
    servo_angles,    \* servo_angles of microspot_app: last angle per channel
    th,              \* the _gait_loop threads: id -> [pc, cycle_time, ...]
    ctx,             \* the request contexts: id -> [pc, ...]
    last_tick,       \* the tick that made the latest leg writes, if one did
    mon,             \* the StabilityMonitor object
    mon_out,         \* the latest call on the monitor: result, listeners run
    raw,             \* the BalanceController's raw-reading state
    raw_out,         \* the latest _read_raw_angles call: sample, result
    profile,         \* calibration.servos: channel -> servo calibration
    cal_out,         \* the latest call on the calibration profile
    ik,              \* IK_AVAILABLE, self.use_ik, self.ik_interface,
                     \* self.trajectory, and the constructions made
    ik_out,          \* the latest set_mode call: argument, result
    poll             \* the thread-pool workers inside get_stability_status

vars == << running, thread, direction, params, stand_angles, balance,
           use_balance, kp, turn_rate, lateral_rate, current_angles,
           servo_angles, th, ctx, last_tick, mon, mon_out, raw, raw_out,
           profile, cal_out, ik, ik_out, poll >>


\* ------------------------------------------------------------------------
\* Gait math (pure functions of the controller state)
\* ------------------------------------------------------------------------

\* _smooth_phase(t) = (1 - cos(t * pi)) / 2, t and the result in permille.
smooth_phase(t) == (Milli - CosPi(t)) \div 2

\* Direction multiplier: forward = 1, backward = -1.
dir_mult == IF direction = "backward" THEN -1 ELSE 1

\* Turn differential on the step length, permille.
stride_mult(leg_id) ==
    IF leg_id \in {"FL", "RL"}
    THEN Milli - DivZ(turn_rate * 500, Milli)
    ELSE Milli + DivZ(turn_rate * 500, Milli)

\* _leg_angles_swing(phase, leg_id): phase in permille, angles in mdeg.
leg_angles_swing(phase, leg_id) ==
    LET step_h == params.step_height
        step_l == params.step_length
        stand == stand_angles[leg_id]
        lift_amount == step_h * SinPi(phase)
        rear_lift_boost == 0
        fwd == DivZ(step_l * stride_mult(leg_id) * dir_mult
                        * (phase * 2 - Milli), Milli)
        knee_offset == -(lift_amount + rear_lift_boost)
                            + DivZ(fwd * KNEE_FORWARD_RATIO, Milli)
        ankle_offset == DivZ(lift_amount * ANKLE_LIFT_RATIO, Milli)
                            + DivZ(fwd * ANKLE_FORWARD_RATIO, Milli)
        hip_swing == HIP_SWING_ANGLE * (phase * 2 - Milli)
        lateral_amount ==
            DivZ(LATERAL_STEP_ANGLE * lateral_rate * SinPi(phase), Milli)
        hip_offset ==
            IF lateral_rate # 0
            THEN IF leg_id \in {"FL", "RL"}
                 THEN hip_swing + lateral_amount
                 ELSE hip_swing - lateral_amount
            ELSE hip_swing
    IN  [hip |-> stand.hip * Milli + hip_offset,
         knee |-> stand.knee * Milli + knee_offset,
         ankle |-> stand.ankle * Milli + ankle_offset]

\* _leg_angles_stance(phase, leg_id): phase in permille, angles in mdeg.
leg_angles_stance(phase, leg_id) ==
    LET step_l == params.step_length
        stand == stand_angles[leg_id]
        fwd == DivZ(step_l * stride_mult(leg_id) * dir_mult
                        * (Milli - phase * 2), Milli)
        knee_offset == DivZ(fwd * KNEE_FORWARD_RATIO, Milli)
        ankle_offset == DivZ(fwd * ANKLE_FORWARD_RATIO, Milli)
        hip_swing == HIP_SWING_ANGLE * (Milli - phase * 2)
        lateral_amount ==
            DivZ(LATERAL_STEP_ANGLE * lateral_rate * (Milli - phase), Milli)
        hip_offset ==
            IF lateral_rate # 0
            THEN IF leg_id \in {"FL", "RL"}
                 THEN hip_swing - lateral_amount
                 ELSE hip_swing + lateral_amount
            ELSE hip_swing
    IN  [hip |-> stand.hip * Milli + hip_offset,
         knee |-> stand.knee * Milli + knee_offset,
         ankle |-> stand.ankle * Milli + ankle_offset]

\* BalanceController.get_correction for filtered angles (pitch, roll) in
\* whole degrees: leg -> correction in mdeg.
get_correction(pitch, roll) ==
    [ FL |-> -(pitch * kp) - DivZ(roll * kp * 500, Milli),
      FR |-> -(pitch * kp) + DivZ(roll * kp * 500, Milli),
      RL |-> -DivZ(pitch * kp * 500, Milli) - DivZ(roll * kp * 500, Milli),
      RR |-> -DivZ(pitch * kp * 500, Milli) + DivZ(roll * kp * 500, Milli) ]

\* What the IMU path hands to one leg write: ok is FALSE when get_correction
\* throws, else (pitch, roll) are the filtered angles it computed from.
NoTilt == [ok |-> TRUE, pitch |-> 0, roll |-> 0]
ImuRaises == [ok |-> FALSE, pitch |-> 0, roll |-> 0]

\* A balance term that does not look at use_balance: a variant the
\* statement of C24 has to tell apart from the code.
BalanceTermAlways(leg_id, imu) ==
    IF balance /\ imu.ok
    THEN get_correction(imu.pitch, imu.roll)[leg_id]
    ELSE 0

\* The balance term of _apply_leg_angles for one leg, mdeg.
BalanceTerm(leg_id, imu) ==
    IF use_balance /\ balance
    THEN IF ~imu.ok THEN 0
         ELSE get_correction(imu.pitch, imu.roll)[leg_id]
    ELSE 0

\* _interpolate(ch, target) on the table cur: the new value of the channel.
interpolate(cur, ch, target) ==
    IF ch \notin DOMAIN cur
    THEN target
    ELSE cur[ch] + DivZ((target - cur[ch]) * INTERP_SPEED, Milli)

\* _apply_leg_angles with the balance term left out of the ankle target: a
\* variant the statement of C6 has to tell apart from the code.
LegTargetsNoAnkle(cur, leg_id, angles, bal) ==
    [hip |-> interpolate(cur, legs[leg_id].hip, angles.hip),
     knee |-> interpolate(cur, legs[leg_id].knee, angles.knee + bal),
     ankle |-> interpolate(cur, legs[leg_id].ankle, angles.ankle)]

\* The three interpolated targets _apply_leg_angles computes for a leg,
\* mdeg, from angles (mdeg) and the balance term bal (mdeg).
LegTargets(cur, leg_id, angles, bal) ==
    [hip |-> interpolate(cur, legs[leg_id].hip, angles.hip),
     knee |-> interpolate(cur, legs[leg_id].knee, angles.knee + bal),
     ankle |-> interpolate(cur, legs[leg_id].ankle,
                           angles.ankle - DivZ(bal * 500, Milli))]

\* A stand pose entry (whole degrees) as angles in mdeg.
InMdeg(a) ==
    [hip |-> a.hip * Milli, knee |-> a.knee * Milli, ankle |-> a.ankle * Milli]

\* f with the channel -> value pairs of the leg overwritten or added.
SetLeg(f, leg_id, v) ==
    [c \in DOMAIN f \cup {legs[leg_id].hip, legs[leg_id].knee, legs[leg_id].ankle}
        |-> IF c = legs[leg_id].hip THEN v.hip
            ELSE IF c = legs[leg_id].knee THEN v.knee
            ELSE IF c = legs[leg_id].ankle THEN v.ankle
            ELSE f[c]]

\* _apply_leg_angles(leg_id, angles) on tab = [cur: _current_angles, srv:
\* servo_angles]: the interpolation state is updated and the three truncated
\* angles are written through set_servo(ch, angle, True).
apply_leg_angles(tab, leg_id, angles, bal) ==
    LET t == LegTargets(tab.cur, leg_id, angles, bal)
    IN  [cur |-> SetLeg(tab.cur, leg_id, t),
         srv |-> SetLeg(tab.srv, leg_id,
                    [hip |-> ToInt(t.hip), knee |-> ToInt(t.knee),
                     ankle |-> ToInt(t.ankle)])]

\* The writes ws[k .. Len(ws)] applied in order, each a [leg, angles, bal].
RECURSIVE ApplyAll(_, _, _)
ApplyAll(tab, ws, k) ==
    IF k > Len(ws) THEN tab
    ELSE ApplyAll(apply_leg_angles(tab, ws[k].leg, ws[k].angles, ws[k].bal),
                  ws, k + 1)

\* The servo and interpolation tables after the leg writes ws.
WriteLegs(ws) ==
    LET tab == ApplyAll([cur |-> current_angles, srv |-> servo_angles], ws, 1)
    IN  /\ current_angles' = tab.cur
        /\ servo_angles' = tab.srv

\* for leg_id in <the stand dict>: _apply_leg_angles(leg_id, pose[leg_id]):
\* the four writes of goto_stand and _return_to_stand; imu[leg] is what the
\* IMU path hands to the write of that leg.
StandWrites(pose, imu) ==
    [k \in 1 .. Len(LegOrder) |->
        [leg |-> LegOrder[k], angles |-> InMdeg(pose[LegOrder[k]]),
         bal |-> BalanceTerm(LegOrder[k], imu[LegOrder[k]])]]

\* The servo table with every channel at the whole-degree angle pose gives
\* its joint: what the three set_servo calls per leg of preview_stand write.
StandServo(pose) ==
    [ch \in Channels |->
        LET l == CHOOSE x \in Legs :
                    ch \in {legs[x].hip, legs[x].knee, legs[x].ankle}
        IN  IF ch = legs[l].hip THEN pose[l].hip
            ELSE IF ch = legs[l].knee THEN pose[l].knee
            ELSE pose[l].ankle]

\* ------------------------------------------------------------------------
\* One tick of the trot (shared by _gait_loop and single_step)
\* ------------------------------------------------------------------------

\* A tick in which pair_b takes the role of pair_a instead of the other
\* one: a variant the statement of C9 has to tell apart from the code.
TickLegSameRole(cycle_phase, k) ==
    LET first_half == cycle_phase < 500
        in_a == k <= Len(pair_a)
        half_phase == IF first_half THEN cycle_phase * 2
                      ELSE (cycle_phase - 500) * 2
    IN  [leg |-> IF in_a THEN pair_a[k] ELSE pair_b[k - Len(pair_a)],
         role |-> IF first_half THEN "swing" ELSE "stance",
         ph |-> IF first_half THEN smooth_phase(half_phase) ELSE half_phase]

\* The k-th leg (1..4) a tick at cycle_phase computes: pair_a then pair_b;
\* pair_a swings in the first half of the cycle, pair_b in the second.  ph
\* is the argument handed to _get_swing_angles / _get_stance_angles.
TickLeg(cycle_phase, k) ==
    LET first_half == cycle_phase < 500
        in_a == k <= Len(pair_a)
        half_phase == IF first_half THEN cycle_phase * 2
                      ELSE (cycle_phase - 500) * 2
        swing == IF in_a THEN first_half ELSE ~first_half
    IN  [leg |-> IF in_a THEN pair_a[k] ELSE pair_b[k - Len(pair_a)],
         role |-> IF swing THEN "swing" ELSE "stance",
         ph |-> IF swing THEN smooth_phase(half_phase) ELSE half_phase]

\* GaitController(set_servo), as init_gait builds it: angle mode, no solver
\* adapter and no trajectory generator; available is IK_AVAILABLE.  made
\* counts the IKInterface and FootTrajectory objects constructed so far;
\* config is self.trajectory.config (mm) once the trajectory exists.
NewIk(available) ==
    [available |-> available, use_ik |-> FALSE, ik_interface |-> FALSE,
     trajectory |-> FALSE,
     config |-> [step_height |-> 0, stride_length |-> 0],
     made |-> [ik_interface |-> 0, trajectory |-> 0]]

\* No set_mode call made yet.
NoModeCall == [op |-> "none", use_ik |-> FALSE, ret |-> "None"]

\* _leg_angles_swing / _leg_angles_stance: the angle-mode computation.
AngleModeAngles(tl) ==
    IF tl.role = "swing"
    THEN leg_angles_swing(tl.ph, tl.leg)
    ELSE leg_angles_stance(tl.ph, tl.leg)

\* A leg computation that answers a failed solver call with the stand pose:
\* a variant the statement of C20 has to tell apart from the code.
TickAnglesStandOnError(tl, sol) ==
    IF ik.use_ik /\ ik.ik_interface /\ ik.trajectory
    THEN IF sol[tl.leg].ok THEN sol[tl.leg].angles
         ELSE InMdeg(stand_angles[tl.leg])
    ELSE AngleModeAngles(tl)

\* _get_swing_angles / _get_stance_angles: in IK mode the _ik variant, which
\* takes the solver's answer sol[leg] for the leg, and falls back on the
\* angle-mode computation when the adapter or the trajectory is missing or
\* the solver path raised (sol[leg].ok false); else the angle-mode one.
TickAngles(tl, sol) ==
    IF ik.use_ik /\ ik.ik_interface /\ ik.trajectory /\ sol[tl.leg].ok
    THEN sol[tl.leg].angles
    ELSE AngleModeAngles(tl)

\* The four writes of one tick, in the order the code makes them.
TickWrites(cycle_phase, imu, sol) ==
    [k \in 1 .. Len(TickOrder) |->
        LET tl == TickLeg(cycle_phase, k)
        IN  [leg |-> tl.leg, role |-> tl.role, angles |-> TickAngles(tl, sol),
             bal |-> BalanceTerm(tl.leg, imu[tl.leg])]]

\* What a tick leaves behind: who made it, the legs its writes ws went to,
\* in order, each with its role, its phase and cycle time, and the step
\* parameters its leg computations read.
TickRecord(who, ws, cycle_phase, cycle_time) ==
    [by |-> who,
     legs |-> [k \in 1 .. Len(ws) |-> [leg |-> ws[k].leg, role |-> ws[k].role]],
     cycle_phase |-> cycle_phase, cycle_time |-> cycle_time,
     step_h |-> params.step_height, step_l |-> params.step_length]

NoTick == [by |-> "none", legs |-> <<>>, cycle_phase |-> 0, cycle_time |-> 0,
           step_h |-> 0, step_l |-> 0]

\* cycle_time = params["cycle_time"] / params["speed"], ms (speed # 0).
EffectiveCycle(p) == DivZ(p.cycle_time * Milli, p.speed)

\* cycle_phase = (elapsed % cycle_time) / cycle_time, permille.
CyclePhase(elapsed, cycle_time) ==
    ((elapsed % cycle_time) * Milli) \div cycle_time

\* ------------------------------------------------------------------------
\* StabilityMonitor (stability_monitor.py); angles in whole degrees
\* ------------------------------------------------------------------------
WARNING_DEG == 10        \* StabilityThresholds.warning_pitch / warning_roll
CRITICAL_DEG == 20       \* StabilityThresholds.critical_pitch / critical_roll
EMERGENCY_DEG == 30      \* StabilityThresholds.emergency_pitch / emergency_roll
max_history_length == 100

\* StabilityThresholds()
DefaultThresholds ==
    [warning_pitch |-> WARNING_DEG, warning_roll |-> WARNING_DEG,
     critical_pitch |-> CRITICAL_DEG, critical_roll |-> CRITICAL_DEG,
     emergency_pitch |-> EMERGENCY_DEG, emergency_roll |-> EMERGENCY_DEG]

Abs(x) == IF x < 0 THEN -x ELSE x

\* update() with >= for >: a variant the statement of C11 has to tell
\* apart from the code.
ClassifyInclusive(t, pitch, roll) ==
    IF Abs(pitch) >= t.emergency_pitch \/ Abs(roll) >= t.emergency_roll
    THEN "emergency"
    ELSE IF Abs(pitch) >= t.critical_pitch \/ Abs(roll) >= t.critical_roll
    THEN "critical"
    ELSE IF Abs(pitch) >= t.warning_pitch \/ Abs(roll) >= t.warning_roll
    THEN "warning"
    ELSE "stable"

\* update(), lines 104-115: new_state for the thresholds t.
Classify(t, pitch, roll) ==
    IF Abs(pitch) > t.emergency_pitch \/ Abs(roll) > t.emergency_roll
    THEN "emergency"
    ELSE IF Abs(pitch) > t.critical_pitch \/ Abs(roll) > t.critical_roll
    THEN "critical"
    ELSE IF Abs(pitch) > t.warning_pitch \/ Abs(roll) > t.warning_roll
    THEN "warning"
    ELSE "stable"

\* A trim that keeps the oldest entries: a variant the statement of C12 has
\* to tell apart from the code.
TrimKeepOldest(h) ==
    IF Len(h) > max_history_length
    THEN SubSeq(h, 1, max_history_length)
    ELSE h

\* _handle_state_change, lines 136-137: state_history[-max_history_length:].
Trim(h) ==
    IF Len(h) > max_history_length
    THEN SubSeq(h, Len(h) - max_history_length + 1, Len(h))
    ELSE h

\* A notification loop that a raising listener ends: a variant the
\* statement of C13 has to tell apart from the code.
NotifiedUntilRaise(m, new_state, raising) ==
    LET n == Len(m.callbacks)
        stop == IF \E k \in 1 .. n : m.callbacks[k] \in raising
                THEN CHOOSE k \in 1 .. n :
                        /\ m.callbacks[k] \in raising
                        /\ \A j \in 1 .. k - 1 : m.callbacks[j] \notin raising
                ELSE n
    IN  [k \in 1 .. stop |->
            [listener |-> m.callbacks[k], old |-> m.current_state,
             new |-> new_state, pitch |-> m.pitch, roll |-> m.roll,
             raised |-> m.callbacks[k] \in raising]]

\* _handle_state_change, lines 144-148: every callback is called, in order of
\* registration, with (previous_state, new_state, pitch, roll); one that
\* raises an Exception (the listeners in raising) is caught and printed.
Notified(m, new_state, raising) ==
    [k \in 1 .. Len(m.callbacks) |->
        [listener |-> m.callbacks[k], old |-> m.current_state,
         new |-> new_state, pitch |-> m.pitch, roll |-> m.roll,
         raised |-> m.callbacks[k] \in raising]]

\* _handle_state_change leaving the state timer running: a variant the
\* statement of C23 has to tell apart from the code.
handle_state_change_keeping_timer(m, new_state, now) ==
    [m EXCEPT !.previous_state = m.current_state,
              !.state_history =
                    Append(m.state_history,
                           << m.current_state, now - m.state_start_time >>),
              !.current_state = new_state]

\* _handle_state_change, lines 129-141, on the monitor m (pitch and roll
\* already stored) at clock reading now.
handle_state_change(m, new_state, now) ==
    [m EXCEPT !.previous_state = m.current_state,
              !.state_history =
                    Trim(Append(m.state_history,
                                << m.current_state, now - m.state_start_time >>)),
              !.current_state = new_state,
              !.state_start_time = now]

\* StabilityMonitor(): __init__ at clock reading 0.
NewMonitor ==
    [thresholds |-> DefaultThresholds,
     current_state |-> "stable", previous_state |-> "stable",
     last_check_time |-> 0, pitch |-> 0, roll |-> 0,
     state_start_time |-> 0, state_history |-> <<>>, callbacks |-> <<>>]

\* Thread-pool workers that serve GET /api/stability at the same time.
Pollers == {"p1", "p2"}

\* A worker outside update(); new_state is the local of update().
IdlePoll == [pc |-> "idle", new_state |-> "stable"]

\* No call made on the monitor yet.  changes counts the state changes made
\* since construction.
NoCall == [op |-> "none", ret |-> "None", notified |-> <<>>, changes |-> 0]

\* ------------------------------------------------------------------------
\* BalanceController raw readings (balance.py); accelerations in 1/1000
\* m/s^2, angles in mdeg
\* ------------------------------------------------------------------------
GLITCH_LIMIT == 10       \* 0.01 m/s^2

\* math.sqrt for a non-negative integer, rounded down (Newton's iteration
\* from the guess g).
RECURSIVE SqrtIter(_, _)
SqrtIter(v, g) ==
    IF v < 2 THEN v
    ELSE LET next == (g + v \div g) \div 2
         IN  IF next >= g THEN g ELSE SqrtIter(v, next)

\* math.atan2(y, x) * 57.2958, by the rational approximation
\* atan(t) = 45 t + 15.64 t (1 - t) degrees for 0 <= t <= 1 (error < 0.22
\* degree), folded into the four quadrants.  atan2(0, 0) is 0.
Atan2(y, x) ==
    LET ay == IF y < 0 THEN -y ELSE y
        ax == IF x < 0 THEN -x ELSE x
        lo == IF ax >= ay THEN ay ELSE ax
        hi == IF ax >= ay THEN ax ELSE ay
        t == IF hi = 0 THEN 0 ELSE (lo * 1000) \div hi
        a == 45 * t + (DivZ(15640 * t, 1000) * (1000 - t)) \div 1000
        octant == IF ax >= ay THEN a ELSE 90000 - a
        half == IF x < 0 THEN 180000 - octant ELSE octant
    IN  IF y < 0 THEN -half ELSE half

\* _read_raw_angles, lines 116-118: (pitch, roll) of one accelerometer
\* reading.  -accel['x'] of a zero x is -0.0, for which atan2 gives -180
\* rather than 180 degrees when z < 0.
RawAngles(accel) ==
    << Atan2(accel.y, SqrtIter(accel.x * accel.x + accel.z * accel.z,
                               accel.x * accel.x + accel.z * accel.z)),
       IF accel.x = 0 /\ accel.z < 0 THEN -180000
       ELSE Atan2(-accel.x, accel.z) >>

\* A glitch test that never finds a glitch: a variant the statement of C14
\* has to tell apart from the code.
BadReadingNever(accel) ==
    FALSE

\* _read_raw_angles, line 109: the all-zeros glitch of the MPU6050.
BadReading(accel) ==
    /\ Abs(accel.x) < GLITCH_LIMIT
    /\ Abs(accel.y) < GLITCH_LIMIT
    /\ Abs(accel.z) < GLITCH_LIMIT

\* BalanceController() with a sensor that initialised.
NewBalance ==
    [simulation_mode |-> FALSE, last_raw_pitch |-> 0, last_raw_roll |-> 0]

\* No reading taken yet.  seen is the most recent valid sample read so far.
NoRead ==
    [op |-> "none", ok |-> TRUE, accel |-> [x |-> 0, y |-> 0, z |-> 0],
     ret |-> << 0, 0 >>,
     seen |-> [any |-> FALSE, accel |-> [x |-> 0, y |-> 0, z |-> 0]]]

\* ------------------------------------------------------------------------
\* CalibrationProfile (microspot_app.py); angles in whole degrees
\* ------------------------------------------------------------------------
\* CalibrationProfile.__init__, lines 170-184: the entry of one channel
\* (the fields apply_to_angle and is_fully_calibrated read).
DefaultServo(channel) ==
    [channel |-> channel, direction |-> 1, neutral_angle |-> 90,
     min_angle |-> 0, max_angle |-> 180, calibrated |-> FALSE]

\* CalibrationProfile(): an entry for each of the 12 channels.
NewProfile == [channel \in 0 .. 11 |-> DefaultServo(channel)]

\* apply_to_angle without the clamp to the safe limits: a variant the
\* statement of C16 has to tell apart from the code.
apply_to_angle_unclamped(servos, channel, angle) ==
    IF channel \notin DOMAIN servos THEN angle
    ELSE servos[channel].neutral_angle
            + servos[channel].direction * (angle - 90)

\* CalibrationProfile.apply_to_angle on the profile servos.
apply_to_angle(servos, channel, angle) ==
    IF channel \notin DOMAIN servos THEN angle
    ELSE LET servo == servos[channel]
             delta == angle - 90
             calibrated == servo.neutral_angle + servo.direction * delta
             capped == IF servo.max_angle < calibrated
                       THEN servo.max_angle ELSE calibrated
         IN  IF servo.min_angle > capped THEN servo.min_angle ELSE capped

\* CalibrationProfile.is_fully_calibrated on the profile servos.
is_fully_calibrated(servos) ==
    \A k \in DOMAIN servos :
        servos[k].channel < 12 => servos[k].calibrated

\* dict.update(data) on one servo entry: the keys data gives are replaced.
UpdateEntry(servo, data) ==
    [k \in DOMAIN servo |-> IF k \in DOMAIN data THEN data[k] ELSE servo[k]]

\* No call made on the profile yet.
NoCalCall == [op |-> "none", channel |-> 0, angle |-> 0, ret |-> 0]

\* ------------------------------------------------------------------------
\* Processes
\* ------------------------------------------------------------------------
\* The IK foot trajectory defaults, mm.
DEFAULT_IK_STEP_HEIGHT == 30
DEFAULT_IK_STRIDE_LENGTH == 40

DefaultParams ==
    [cycle_time |-> DEFAULT_CYCLE_TIME, speed |-> DEFAULT_SPEED,
     step_height |-> DivZ(DEFAULT_KNEE_BEND * 900, Milli),
     step_length |-> DivZ(DEFAULT_KNEE_BEND * 500, Milli),
     ik_step_height |-> DEFAULT_IK_STEP_HEIGHT,
     ik_stride_length |-> DEFAULT_IK_STRIDE_LENGTH]

\* A loop thread: its place in _gait_loop, its local cycle_time, and
\* whether a stop() that joined it has returned.
FreeThread == [pc |-> "free", cycle_time |-> 0, released |-> FALSE]

\* A request context: its place in the call it makes (op), the arguments and
\* locals of the call, and the result (res) once it has returned.
IdleCtx ==
    [pc |-> "idle", op |-> "none", res |-> "None", d |-> "forward",
     todo |-> <<>>, ik_key |-> FALSE,
     old |-> DefaultParams, jt |-> None,
     cycle_time |-> 0, steps |-> 0, n |-> 0]

Init ==
    /\ running = FALSE
    /\ thread = None
    /\ direction = "forward"
    /\ params = DefaultParams
    /\ stand_angles = StandOf(DEFAULT_KNEE_BEND)
    /\ balance \in BOOLEAN
    /\ use_balance = FALSE
    /\ kp = DEFAULT_KP
    /\ turn_rate = 0
    /\ lateral_rate = 0
    /\ current_angles = << >>
    /\ servo_angles = [c \in Channels |-> SERVO_INIT]
    /\ th = [t \in Threads |-> FreeThread]
    /\ ctx = [c \in Ctx |-> IdleCtx]
    /\ last_tick = NoTick
    /\ mon = NewMonitor
    /\ mon_out = NoCall
    /\ raw = NewBalance
    /\ raw_out = NoRead
    /\ profile = NewProfile
    /\ cal_out = NoCalCall
    /\ ik \in {NewIk(available) : available \in BOOLEAN}
    /\ ik_out = NoModeCall
    /\ poll = [w \in Pollers |-> IdlePoll]

\* The objects beside the gait controller's walking state.
restState ==
    << mon, mon_out, raw, raw_out, profile, cal_out, ik, ik_out, poll >>

gaitState == << running, thread, direction, params, stand_angles, balance,
                use_balance, kp, turn_rate, lateral_rate >>
servoState == << current_angles, servo_angles >>

\* The loop threads that have been started and have not ended.
Live(t) == th[t].pc \in {"init", "while", "ret"}
LiveLoops == {t \in Threads : Live(t)}

\* The call op of c returns res ("True", "False", "None", "error", or "raise"
\* when an exception leaves the call); the caller then takes the result.
Return(c, op, res) ==
    ctx' = [ctx EXCEPT ![c] =
            [IdleCtx EXCEPT !.pc = "ret", !.op = op, !.res = res,
                            !.cycle_time = ctx[c].cycle_time,
                            !.steps = ctx[c].steps, !.n = ctx[c].n]]

Finish(c) ==
    /\ ctx[c].pc = "ret"
    /\ ctx' = [ctx EXCEPT ![c] = IdleCtx]
    /\ UNCHANGED << gaitState, servoState, th, last_tick >>
    /\ UNCHANGED restState

\* ---- _gait_loop (one per started thread) --------------------------------

\* Lines 633-645: the header prints, then cycle_time is computed once.
LoopInit(t) ==
    /\ th[t].pc = "init"
    /\ th' = [th EXCEPT ![t] =
                IF params.speed = 0
                THEN [@ EXCEPT !.pc = "crashed"]
                ELSE [@ EXCEPT !.pc = "while",
                               !.cycle_time = EffectiveCycle(params)]]
    /\ UNCHANGED << gaitState, servoState, ctx, last_tick >>
    /\ UNCHANGED restState

\* Lines 647-680, one pass of the while loop with self.running set: the
\* phase of the tick from the clock, the four legs computed and written,
\* the sleep of step_time.
LoopTick(t, elapsed, imu, sol) ==
    /\ th[t].pc = "while"
    /\ running
    /\ IF th[t].cycle_time = 0
       THEN /\ th' = [th EXCEPT ![t].pc = "crashed"]
            /\ UNCHANGED << servoState, last_tick >>
       ELSE LET cycle_phase == CyclePhase(elapsed, th[t].cycle_time)
                ws == TickWrites(cycle_phase, imu, sol)
            IN  /\ WriteLegs(ws)
                /\ last_tick' = TickRecord("loop", ws, cycle_phase,
                                           th[t].cycle_time)
                /\ UNCHANGED th
    /\ UNCHANGED << gaitState, ctx >>
    /\ UNCHANGED restState

\* Line 647 with self.running clear: the while loop ends.
LoopExit(t) ==
    /\ th[t].pc = "while"
    /\ ~running
    /\ th' = [th EXCEPT ![t].pc = "ret"]
    /\ UNCHANGED << gaitState, servoState, ctx, last_tick >>
    /\ UNCHANGED restState

\* Lines 686-692: _return_to_stand with the stand pose of this moment; the
\* thread ends.
LoopReturn(t, imu) ==
    /\ th[t].pc = "ret"
    /\ WriteLegs(StandWrites(stand_angles, imu))
    /\ th' = [th EXCEPT ![t] = [@ EXCEPT !.pc = "done"]]
    /\ last_tick' = NoTick
    /\ UNCHANGED << gaitState, ctx >>
    /\ UNCHANGED restState

\* ---- start(direction) ----------------------------------------------------

\* start() without its running test: a variant the statement of C5 has to
\* tell apart from the code.
StartCheckUnguarded(c, d) ==
    /\ ctx[c].pc = "idle"
    /\ ctx' = [ctx EXCEPT ![c] =
                [@ EXCEPT !.pc = "start_stand", !.op = "start", !.d = d]]
    /\ UNCHANGED << gaitState, servoState, th, last_tick >>
    /\ UNCHANGED restState

\* Lines 706-708: the running test.
StartCheck(c, d) ==
    /\ ctx[c].pc = "idle"
    /\ IF running
       THEN Return(c, "start", "False")
       ELSE ctx' = [ctx EXCEPT ![c] =
                [@ EXCEPT !.pc = "start_stand", !.op = "start", !.d = d]]
    /\ UNCHANGED << gaitState, servoState, th, last_tick >>
    /\ UNCHANGED restState

\* Lines 710-711, 743-744: goto_stand applies the stand pose to the four
\* legs (start and single_step both begin with it), then sleeps 0.3 s.
GotoStand(c, imu) ==
    /\ ctx[c].pc \in {"start_stand", "step_stand"}
    /\ WriteLegs(StandWrites(stand_angles, imu))
    /\ ctx' = [ctx EXCEPT ![c].pc =
                IF @ = "start_stand" THEN "start_dir" ELSE "step_setup"]
    /\ last_tick' = NoTick
    /\ UNCHANGED << gaitState, th >>
    /\ UNCHANGED restState

\* Line 713: self.direction = direction.
StartSetDirection(c) ==
    /\ ctx[c].pc = "start_dir"
    /\ direction' = ctx[c].d
    /\ ctx' = [ctx EXCEPT ![c].pc = "start_run"]
    /\ UNCHANGED << running, thread, params, stand_angles, balance,
                    use_balance, kp, turn_rate, lateral_rate, servoState, th,
                    last_tick >>
    /\ UNCHANGED restState

\* Line 714: self.running = True.
StartSetRunning(c) ==
    /\ ctx[c].pc = "start_run"
    /\ running' = TRUE
    /\ ctx' = [ctx EXCEPT ![c].pc = "start_thread"]
    /\ UNCHANGED << thread, direction, params, stand_angles, balance,
                    use_balance, kp, turn_rate, lateral_rate, servoState, th,
                    last_tick >>
    /\ UNCHANGED restState

\* A thread id start may use: free, or ended and no longer referred to.
Reusable(t) ==
    /\ th[t].pc \in {"free", "done", "crashed"}
    /\ thread # t
    /\ \A c \in Ctx : ctx[c].jt # t

\* Lines 715-717: the loop thread is created and started; start returns True.
StartThread(c) ==
    /\ ctx[c].pc = "start_thread"
    /\ \E t \in Threads :
        /\ Reusable(t)
        /\ \A u \in Threads : Reusable(u) => t <= u
        /\ thread' = t
        /\ th' = [th EXCEPT ![t] = [FreeThread EXCEPT !.pc = "init"]]
    /\ Return(c, "start", "True")
    /\ UNCHANGED << running, direction, params, stand_angles, balance,
                    use_balance, kp, turn_rate, lateral_rate, servoState,
                    last_tick >>
    /\ UNCHANGED restState

\* ---- stop() --------------------------------------------------------------

\* Lines 721-723: the running test.
StopCheck(c) ==
    /\ ctx[c].pc = "idle"
    /\ IF ~running
       THEN Return(c, "stop", "False")
       ELSE ctx' = [ctx EXCEPT ![c] = [@ EXCEPT !.pc = "stop_flag", !.op = "stop"]]
    /\ UNCHANGED << gaitState, servoState, th, last_tick >>
    /\ UNCHANGED restState

\* Line 725: self.running = False.
StopSetFlag(c) ==
    /\ ctx[c].pc = "stop_flag"
    /\ running' = FALSE
    /\ ctx' = [ctx EXCEPT ![c].pc = "stop_test"]
    /\ UNCHANGED << thread, direction, params, stand_angles, balance,
                    use_balance, kp, turn_rate, lateral_rate, servoState, th,
                    last_tick >>
    /\ UNCHANGED restState

\* Line 726: if self.thread; without a thread stop returns True at once.
StopTestThread(c) ==
    /\ ctx[c].pc = "stop_test"
    /\ IF thread = None
       THEN Return(c, "stop", "True")
       ELSE ctx' = [ctx EXCEPT ![c].pc = "stop_load"]
    /\ UNCHANGED << gaitState, servoState, th, last_tick >>
    /\ UNCHANGED restState

\* Line 727: self.thread is read again for the join; None has no join.
StopLoadThread(c) ==
    /\ ctx[c].pc = "stop_load"
    /\ IF thread = None
       THEN Return(c, "stop", "raise")
       ELSE ctx' = [ctx EXCEPT ![c] = [@ EXCEPT !.pc = "stop_join", !.jt = thread]]
    /\ UNCHANGED << gaitState, servoState, th, last_tick >>
    /\ UNCHANGED restState

\* Line 727: join(timeout=2.0) returns when the thread has ended ...
StopJoin(c) ==
    /\ ctx[c].pc = "stop_join"
    /\ ~Live(ctx[c].jt)
    /\ ctx' = [ctx EXCEPT ![c].pc = "stop_clear"]
    /\ UNCHANGED << gaitState, servoState, th, last_tick >>
    /\ UNCHANGED restState

\* ... or when the 2 seconds have passed with the thread still alive.
StopJoinTimeout(c) ==
    /\ ctx[c].pc = "stop_join"
    /\ Live(ctx[c].jt)
    /\ ctx' = [ctx EXCEPT ![c].pc = "stop_clear"]
    /\ UNCHANGED << gaitState, servoState, th, last_tick >>
    /\ UNCHANGED restState

\* Lines 728-729: self.thread = None; return True.  The thread this stop
\* waited for is marked as released to the caller.
StopClear(c) ==
    /\ ctx[c].pc = "stop_clear"
    /\ thread' = None
    /\ th' = [th EXCEPT ![ctx[c].jt].released = TRUE]
    /\ Return(c, "stop", "True")
    /\ UNCHANGED << running, direction, params, stand_angles, balance,
                    use_balance, kp, turn_rate, lateral_rate, servoState,
                    last_tick >>
    /\ UNCHANGED restState

\* ---- preview_stand() -----------------------------------------------------

\* Lines 332-337: every leg's stand angles are written with set_servo
\* directly: no balance, and the interpolation state is not touched.
PreviewStand(c) ==
    /\ ctx[c].pc = "idle"
    /\ servo_angles' = StandServo(stand_angles)
    /\ Return(c, "preview_stand", "None")
    /\ last_tick' = NoTick
    /\ UNCHANGED << gaitState, current_angles, th >>
    /\ UNCHANGED restState

\* ---- set_params(**kwargs) ------------------------------------------------

\* set_params leaving the trajectory as it is: a variant the statement of
\* C26 has to tell apart from the code.
update_trajectory_config_never(p, ik_key) == ik

\* Lines 250-253: the trajectory's config is set from the parameters p when
\* the trajectory exists and an IK parameter was among the keyword
\* arguments (ik_key); the value is the new ik record.
update_trajectory_config(p, ik_key) ==
    IF ik.trajectory /\ ik_key
    THEN [ik EXCEPT !.config = [step_height |-> p.ik_step_height,
                                stride_length |-> p.ik_stride_length]]
    ELSE ik

\* Lines 245-253, one iteration: a key of kwargs is stored (every key used
\* here is a key of self.params); after the last one the trajectory's
\* config is brought up to date and the call returns.
StoreKey(c, kwargs, old, ik_key) ==
    /\ params' = [params EXCEPT ![Head(kwargs).key] = Head(kwargs).value]
    /\ IF Tail(kwargs) = <<>>
       THEN /\ ik' = update_trajectory_config(params', ik_key)
            /\ Return(c, "set_params", "None")
       ELSE /\ ik' = ik
            /\ ctx' = [ctx EXCEPT ![c] =
                    [@ EXCEPT !.pc = "set_params", !.op = "set_params",
                              !.todo = Tail(kwargs), !.old = old,
                              !.ik_key = ik_key]]
    /\ UNCHANGED << running, thread, direction, stand_angles, balance,
                    use_balance, kp, turn_rate, lateral_rate, servoState, th,
                    last_tick >>
    /\ UNCHANGED << mon, mon_out, raw, raw_out, profile, cal_out, ik_out,
                    poll >>

\* The call, with its first key; old keeps the parameters it found.
SetParams(c, kwargs) ==
    /\ ctx[c].pc = "idle"
    /\ kwargs # <<>>
    /\ StoreKey(c, kwargs, params,
                \E i \in 1 .. Len(kwargs) :
                    kwargs[i].key \in {"ik_step_height", "ik_stride_length"})

\* The following keys.
SetParamsNext(c) ==
    /\ ctx[c].pc = "set_params"
    /\ StoreKey(c, ctx[c].todo, ctx[c].old, ctx[c].ik_key)

\* ---- set_stand_height(knee_bend) -----------------------------------------

Clamp(lo, hi, x) == IF x < lo THEN lo ELSE IF x > hi THEN hi ELSE x

\* Lines 302-323.
SetStandHeight(c, knee_bend) ==
    /\ ctx[c].pc = "idle"
    /\ stand_angles' = StandOf(Clamp(0, 80, knee_bend))
    /\ UNCHANGED << running, thread, direction, params, balance,
                    use_balance, kp, turn_rate, lateral_rate, servoState,
                    th, ctx, last_tick >>
    /\ UNCHANGED restState

\* ---- set_turn_rate, set_lateral_rate, set_balance_kp ----------------------

\* set_turn_rate storing its argument as it comes: a variant the statement
\* of C21 has to tell apart from the code.
SetTurnRateUnclamped(rate) ==
    /\ turn_rate' = rate
    /\ UNCHANGED << running, thread, direction, params, stand_angles,
                    balance, use_balance, kp, lateral_rate, servoState,
                    th, ctx, last_tick >>
    /\ UNCHANGED restState

\* set_turn_rate(rate): max(-1.0, min(1.0, rate)), permille.
SetTurnRate(rate) ==
    /\ turn_rate' = Clamp(-Milli, Milli, rate)
    /\ UNCHANGED << running, thread, direction, params, stand_angles,
                    balance, use_balance, kp, lateral_rate, servoState,
                    th, ctx, last_tick >>
    /\ UNCHANGED restState

\* set_lateral_rate(rate): max(-1.0, min(1.0, rate)), permille.
SetLateralRate(rate) ==
    /\ lateral_rate' = Clamp(-Milli, Milli, rate)
    /\ UNCHANGED << running, thread, direction, params, stand_angles,
                    balance, use_balance, kp, turn_rate, servoState,
                    th, ctx, last_tick >>
    /\ UNCHANGED restState

\* set_balance_kp(value): BalanceController.set_kp stores
\* max(0.0, min(2.0, kp)) when there is a balance controller.
SetBalanceKp(value) ==
    /\ kp' = IF balance THEN Clamp(0, 2 * Milli, value) ELSE kp
    /\ UNCHANGED << running, thread, direction, params, stand_angles,
                    balance, use_balance, turn_rate, lateral_rate,
                    servoState, th, ctx, last_tick >>
    /\ UNCHANGED restState

\* ---- enable_balance(enable, calibrate) -----------------------------------

\* Lines 341-345: without a balance controller the call fails; else the flag
\* is stored, and the IMU calibration follows when asked for.
EnableBalance(c, enable, calibrate) ==
    /\ ctx[c].pc = "idle"
    /\ IF ~balance
       THEN /\ Return(c, "enable_balance", "False")
            /\ UNCHANGED use_balance
       ELSE /\ use_balance' = enable
            /\ IF enable /\ calibrate
               THEN ctx' = [ctx EXCEPT ![c] =
                        [@ EXCEPT !.pc = "calibrate", !.op = "enable_balance"]]
               ELSE Return(c, "enable_balance", "True")
    /\ UNCHANGED << running, thread, direction, params, stand_angles,
                    balance, kp, turn_rate, lateral_rate, servoState, th,
                    last_tick >>
    /\ UNCHANGED restState

\* Lines 346-349: self.balance.calibrate(30) has run; return True.
Calibrate(c) ==
    /\ ctx[c].pc = "calibrate"
    /\ Return(c, "enable_balance", "True")
    /\ UNCHANGED << gaitState, servoState, th, last_tick >>
    /\ UNCHANGED restState

\* ---- single_step(direction), behind its endpoint -------------------------

\* microspot_app.py 1077-1086: the endpoint refuses while the gait runs;
\* else it calls single_step, which begins with goto_stand.
SingleStepBegin(c, d) ==
    /\ ctx[c].pc = "idle"
    /\ IF running
       THEN Return(c, "single_step", "error")
       ELSE ctx' = [ctx EXCEPT ![c] =
                [@ EXCEPT !.pc = "step_stand", !.op = "single_step", !.d = d]]
    /\ UNCHANGED << gaitState, servoState, th, last_tick >>
    /\ UNCHANGED restState

\* Lines 746-754: direction, the cycle time and the number of ticks; the
\* division raises ZeroDivisionError for speed 0.
SingleStepSetup(c) ==
    /\ ctx[c].pc = "step_setup"
    /\ direction' = ctx[c].d
    /\ IF params.speed = 0
       THEN Return(c, "single_step", "raise")
       ELSE LET cycle_time == EffectiveCycle(params)
                steps == DivZ(cycle_time, SINGLE_STEP_UPDATE_RATE)
            IN  ctx' = [ctx EXCEPT ![c] =
                    [@ EXCEPT !.pc = IF steps <= 0 THEN "step_ret"
                                     ELSE "step_tick",
                              !.cycle_time = cycle_time, !.steps = steps,
                              !.n = 0]]
    /\ UNCHANGED << running, thread, params, stand_angles, balance,
                    use_balance, kp, turn_rate, lateral_rate, servoState, th,
                    last_tick >>
    /\ UNCHANGED restState

\* Lines 753-785: iteration i = n of range(steps): the four legs are computed
\* and written at cycle_phase = i / steps, then the sleep; the for loop goes
\* on with i + 1 or ends.
SingleStepTick(c, imu, sol) ==
    /\ ctx[c].pc = "step_tick"
    /\ LET cycle_phase == (ctx[c].n * Milli) \div ctx[c].steps
           ws == TickWrites(cycle_phase, imu, sol)
       IN  /\ WriteLegs(ws)
           /\ last_tick' = TickRecord("single_step", ws, cycle_phase,
                                      ctx[c].cycle_time)
    /\ ctx' = [ctx EXCEPT ![c] =
            [@ EXCEPT !.n = @ + 1,
                      !.pc = IF ctx[c].n + 1 < ctx[c].steps
                             THEN "step_tick" ELSE "step_ret"]]
    /\ UNCHANGED << gaitState, th >>
    /\ UNCHANGED restState

\* Lines 787-790: _return_to_stand; single_step returns.
SingleStepReturn(c, imu) ==
    /\ ctx[c].pc = "step_ret"
    /\ WriteLegs(StandWrites(stand_angles, imu))
    /\ Return(c, "single_step", "None")
    /\ last_tick' = NoTick
    /\ UNCHANGED << gaitState, th >>
    /\ UNCHANGED restState

\* The state of the gait controller, its threads and request contexts.
walkState == << gaitState, servoState, th, ctx, last_tick >>

\* ---- set_mode(use_ik) ------------------------------------------------------

\* set_mode with self.use_ik set before the objects are constructed: a
\* variant the statement of C19 has to tell apart from the code.
SetModeEager(use_ik, built) ==
    /\ ik' = [ik EXCEPT !.use_ik = use_ik /\ ik.available]
    /\ ik_out' = [op |-> "set_mode", use_ik |-> use_ik,
                  ret |-> IF use_ik /\ ~ik.available THEN "False" ELSE "True"]
    /\ UNCHANGED << walkState, poll, mon, mon_out, raw, raw_out, profile, cal_out >>

\* set_mode(use_ik).  built says which constructors succeed if they are
\* called: IKInterface(...) and FootTrajectory(...); each is called only for
\* an object that is still None, and the first exception ends the attempt.
SetMode(use_ik, built) ==
    LET need_itf == ~ik.ik_interface
        itf == ik.ik_interface \/ built.ik_interface
        need_trj == itf /\ ~ik.trajectory
        trj == itf /\ (ik.trajectory \/ built.trajectory)
    IN  /\ IF use_ik /\ ~ik.available
           THEN /\ ik' = ik
                /\ ik_out' = [op |-> "set_mode", use_ik |-> use_ik,
                              ret |-> "False"]
           ELSE IF use_ik /\ ~ik.use_ik
           THEN /\ ik' = [ik EXCEPT
                    !.ik_interface = itf,
                    !.trajectory = ik.trajectory \/ trj,
                    !.config =
                        IF need_trj /\ built.trajectory
                        THEN [step_height |-> params.ik_step_height,
                              stride_length |-> params.ik_stride_length]
                        ELSE @,
                    !.made.ik_interface =
                        @ + (IF need_itf /\ built.ik_interface THEN 1 ELSE 0),
                    !.made.trajectory =
                        @ + (IF need_trj /\ built.trajectory THEN 1 ELSE 0),
                    !.use_ik = itf /\ trj]
                /\ ik_out' = [op |-> "set_mode", use_ik |-> use_ik,
                              ret |-> IF itf /\ trj THEN "True" ELSE "False"]
           ELSE IF ~use_ik
           THEN /\ ik' = [ik EXCEPT !.use_ik = FALSE]
                /\ ik_out' = [op |-> "set_mode", use_ik |-> use_ik,
                              ret |-> "True"]
           ELSE /\ ik' = ik
                /\ ik_out' = [op |-> "set_mode", use_ik |-> use_ik,
                              ret |-> "True"]
        /\ UNCHANGED << walkState, poll, mon, mon_out, raw, raw_out, profile,
                        cal_out >>

\* ---- StabilityMonitor calls ---------------------------------------------

\* update(pitch, roll) at clock reading now; the listeners in raising raise
\* an Exception when called.  At most depth state changes are followed.
MonUpdate(pitch, roll, now, raising, depth) ==
    LET m == [mon EXCEPT !.pitch = pitch, !.roll = roll,
                         !.last_check_time = now]
        new_state == Classify(mon.thresholds, pitch, roll)
    IN  /\ now >= mon.last_check_time
        /\ now >= mon.state_start_time
        /\ IF new_state # mon.current_state
           THEN /\ mon_out.changes < depth
                /\ mon' = handle_state_change(m, new_state, now)
                /\ mon_out' = [op |-> "update", ret |-> new_state,
                               notified |-> Notified(m, new_state, raising),
                               changes |-> mon_out.changes + 1]
           ELSE /\ mon' = m
                /\ mon_out' = [op |-> "update", ret |-> m.current_state,
                               notified |-> <<>>,
                               changes |-> mon_out.changes]
        /\ UNCHANGED << walkState, poll, raw, raw_out, profile, cal_out, ik, ik_out >>

\* reset() going through a state change to stable, listeners called: a
\* variant the statement of C30 has to tell apart from the code.
MonResetNotifying(now) ==
    /\ now >= mon.last_check_time
    /\ now >= mon.state_start_time
    /\ mon' = [mon EXCEPT !.current_state = "stable",
                          !.previous_state = "stable",
                          !.pitch = 0, !.roll = 0,
                          !.state_start_time = now,
                          !.state_history = <<>>]
    /\ mon_out' = [op |-> "reset", ret |-> "None",
                   notified |-> IF mon.current_state = "stable" THEN <<>>
                                ELSE Notified(mon, "stable", {}),
                   changes |-> mon_out.changes]
    /\ UNCHANGED << walkState, poll, raw, raw_out, profile, cal_out, ik,
                    ik_out >>

\* reset() at clock reading now.
MonReset(now) ==
    /\ now >= mon.last_check_time
    /\ now >= mon.state_start_time
    /\ mon' = [mon EXCEPT !.current_state = "stable",
                          !.previous_state = "stable",
                          !.pitch = 0, !.roll = 0,
                          !.state_start_time = now,
                          !.state_history = <<>>]
    /\ mon_out' = [op |-> "reset", ret |-> "None", notified |-> <<>>,
                   changes |-> mon_out.changes]
    /\ UNCHANGED << walkState, poll, raw, raw_out, profile, cal_out, ik, ik_out >>

\* on_state_change(callback): the listener l is registered (once here).
MonOnStateChange(l) ==
    /\ \A k \in DOMAIN mon.callbacks : mon.callbacks[k] # l
    /\ mon' = [mon EXCEPT !.callbacks = Append(@, l)]
    /\ mon_out' = [op |-> "on_state_change", ret |-> "None",
                   notified |-> <<>>, changes |-> mon_out.changes]
    /\ UNCHANGED << walkState, poll, raw, raw_out, profile, cal_out, ik, ik_out >>

\* set_stability_thresholds (microspot_app.py): the keys of data are set on
\* the thresholds object; data here gives all six.
MonSetThresholds(data) ==
    /\ mon' = [mon EXCEPT !.thresholds = data]
    /\ mon_out' = [op |-> "set_thresholds", ret |-> "None",
                   notified |-> <<>>, changes |-> mon_out.changes]
    /\ UNCHANGED << walkState, poll, raw, raw_out, profile, cal_out, ik, ik_out >>

\* ---- update(pitch, roll) called from thread-pool workers ------------------

\* get_stability_status is a plain def, so each request runs update() in a
\* worker thread of its own, with no lock; the steps below are the places
\* where another worker can run in between.

\* Lines 100-115: the reading and the clock are stored, new_state is
\* computed.  At most depth history entries are followed.
PollUpdate(w, pitch, roll, now, depth) ==
    /\ poll[w].pc = "idle"
    /\ mon_out.changes < depth
    /\ now >= mon.last_check_time
    /\ now >= mon.state_start_time
    /\ mon' = [mon EXCEPT !.pitch = pitch, !.roll = roll,
                          !.last_check_time = now]
    /\ poll' = [poll EXCEPT ![w] =
                    [pc |-> "test",
                     new_state |-> Classify(mon.thresholds, pitch, roll)]]
    /\ UNCHANGED << walkState, mon_out, raw, raw_out, profile, cal_out, ik,
                    ik_out >>

\* Lines 118-121: the test new_state != self.current_state; without a
\* change update returns self.current_state.
PollTest(w) ==
    /\ poll[w].pc = "test"
    /\ IF poll[w].new_state # mon.current_state
       THEN /\ poll' = [poll EXCEPT ![w].pc = "record"]
            /\ UNCHANGED mon_out
       ELSE /\ poll' = [poll EXCEPT ![w] = IdlePoll]
            /\ mon_out' = [op |-> "update", ret |-> mon.current_state,
                           notified |-> <<>>, changes |-> mon_out.changes]
    /\ UNCHANGED << walkState, mon, raw, raw_out, profile, cal_out, ik,
                    ik_out >>

\* _handle_state_change, lines 129-137: previous_state is set, the history
\* entry is appended and the history trimmed.
PollRecord(w, now) ==
    /\ poll[w].pc = "record"
    /\ now >= mon.last_check_time
    /\ now >= mon.state_start_time
    /\ mon' = [mon EXCEPT
                !.previous_state = mon.current_state,
                !.state_history =
                    Trim(Append(@, << mon.current_state,
                                     now - mon.state_start_time >>))]
    /\ mon_out' = [mon_out EXCEPT !.changes = @ + 1]
    /\ poll' = [poll EXCEPT ![w].pc = "switch"]
    /\ UNCHANGED << walkState, raw, raw_out, profile, cal_out, ik, ik_out >>

\* _handle_state_change, lines 140-141: the new state and its start time.
PollSwitch(w, now) ==
    /\ poll[w].pc = "switch"
    /\ now >= mon.last_check_time
    /\ now >= mon.state_start_time
    /\ mon' = [mon EXCEPT !.current_state = poll[w].new_state,
                          !.state_start_time = now]
    /\ poll' = [poll EXCEPT ![w].pc = "notify"]
    /\ UNCHANGED << walkState, mon_out, raw, raw_out, profile, cal_out, ik,
                    ik_out >>

\* _handle_state_change, lines 144-148, and line 121: every callback is
\* called with (self.previous_state, new_state, self.pitch, self.roll) as
\* they are now; update returns self.current_state.
PollNotify(w, raising) ==
    /\ poll[w].pc = "notify"
    /\ mon_out' =
            [op |-> "update", ret |-> mon.current_state,
             notified |->
                [k \in 1 .. Len(mon.callbacks) |->
                    [listener |-> mon.callbacks[k],
                     old |-> mon.previous_state,
                     new |-> poll[w].new_state,
                     pitch |-> mon.pitch, roll |-> mon.roll,
                     raised |-> mon.callbacks[k] \in raising]],
             changes |-> mon_out.changes]
    /\ poll' = [poll EXCEPT ![w] = IdlePoll]
    /\ UNCHANGED << walkState, mon, raw, raw_out, profile, cal_out, ik,
                    ik_out >>

\* ---- BalanceController._read_raw_angles ----------------------------------

\* _read_raw_angles(): imu.get_accel_data() returns accel when ok, and
\* raises an Exception otherwise.
ReadRawAngles(ok, accel) ==
    LET valid == ~raw.simulation_mode /\ ok /\ ~BadReading(accel)
        angles == RawAngles(accel)
    IN  /\ raw' = IF valid
                  THEN [raw EXCEPT !.last_raw_pitch = angles[1],
                                   !.last_raw_roll = angles[2]]
                  ELSE raw
        /\ raw_out' =
            [op |-> "read_raw_angles", ok |-> ok, accel |-> accel,
             ret |-> IF raw.simulation_mode THEN << 0, 0 >>
                     ELSE IF valid THEN angles
                     ELSE << raw.last_raw_pitch, raw.last_raw_roll >>,
             seen |-> IF valid THEN [any |-> TRUE, accel |-> accel]
                      ELSE raw_out.seen]
        /\ UNCHANGED << walkState, poll, mon, mon_out, profile, cal_out, ik, ik_out >>

\* ---- CalibrationProfile calls and the calibration workflow ----------------

\* calibration.apply_to_angle(channel, angle), as set_servo calls it.
ApplyToAngle(channel, angle) ==
    /\ cal_out' = [op |-> "apply_to_angle", channel |-> channel,
                   angle |-> angle,
                   ret |-> apply_to_angle(profile, channel, angle)]
    /\ UNCHANGED << profile, walkState, poll, mon, mon_out, raw, raw_out,
                    ik, ik_out >>

\* calibration.is_fully_calibrated(); ret is 1 for True, 0 for False.
IsFullyCalibrated ==
    /\ cal_out' = [op |-> "is_fully_calibrated", channel |-> 0, angle |-> 0,
                   ret |-> IF is_fully_calibrated(profile) THEN 1 ELSE 0]
    /\ UNCHANGED << profile, walkState, poll, mon, mon_out, raw, raw_out,
                    ik, ik_out >>

\* reset_calibration: calibration = CalibrationProfile().
ResetCalibration ==
    /\ profile' = NewProfile
    /\ cal_out' = [NoCalCall EXCEPT !.op = "reset"]
    /\ UNCHANGED << walkState, poll, mon, mon_out, raw, raw_out, ik, ik_out >>

\* load_calibration: CalibrationProfile.from_dict(data) replaces the servo
\* table by the one of the file, servos being data["servos"] with its keys
\* made integers.
LoadCalibration(servos) ==
    /\ profile' = servos
    /\ cal_out' = [NoCalCall EXCEPT !.op = "load"]
    /\ UNCHANGED << walkState, poll, mon, mon_out, raw, raw_out, ik, ik_out >>

\* update_servo_calibration / save_servo_calibration:
\* calibration.servos[channel].update(data) for a channel of the profile.
UpdateServoCalibration(channel, data) ==
    /\ channel \in DOMAIN profile
    /\ profile' = [profile EXCEPT ![channel] = UpdateEntry(@, data)]
    /\ cal_out' = [NoCalCall EXCEPT !.op = "update", !.channel = channel]
    /\ UNCHANGED << walkState, poll, mon, mon_out, raw, raw_out, ik, ik_out >>

\* autotune_set_neutral: the angle becomes the channel's neutral angle and
\* the channel counts as calibrated.
AutotuneSetNeutral(channel, angle) ==
    /\ channel \in DOMAIN profile
    /\ profile' = [profile EXCEPT ![channel].neutral_angle = angle,
                                  ![channel].calibrated = TRUE]
    /\ cal_out' = [NoCalCall EXCEPT !.op = "autotune_set_neutral",
                                    !.channel = channel, !.angle = angle]
    /\ UNCHANGED << walkState, poll, mon, mon_out, raw, raw_out, ik, ik_out >>

\* ------------------------------------------------------------------------
\* Inputs and specifications
\* ------------------------------------------------------------------------

\* Clock readings (elapsed ms since the loop began) a tick can see.
ElapsedSamples == {250, 500}

\* What the IMU path can hand to the leg writes of one tick or stand move.
Tilted == [ok |-> TRUE, pitch |-> 4, roll |-> -2]
Level == [l \in Legs |-> NoTilt]
Slope == [l \in Legs |-> Tilted]
Faulty == [l \in Legs |-> IF l = "FL" THEN ImuRaises
                          ELSE IF l = "RR" THEN Tilted ELSE NoTilt]
ImuRuns == {Level, Slope, Faulty}

\* What the solver path of the _ik leg computations gives for each leg in
\* one tick: angles (mdeg), or an exception (ok false).
IkPose == [hip |-> 90000, knee |-> 60000, ankle |-> 120000]
SolverRuns ==
    { [l \in Legs |-> [ok |-> TRUE, angles |-> IkPose]],
      [l \in Legs |-> [ok |-> l # "RL", angles |-> IkPose]],
      [l \in Legs |-> [ok |-> FALSE, angles |-> IkPose]] }

\* The solver is asked in IK mode only.
Solves ==
    IF ik.use_ik THEN SolverRuns
    ELSE {[l \in Legs |-> [ok |-> FALSE, angles |-> IkPose]]}

\* Keyword arguments of the set_params calls made.
ParamCalls ==
    { << [key |-> "step_height", value |-> 25],
         [key |-> "step_length", value |-> 12] >>,
      << [key |-> "cycle_time", value |-> 90], [key |-> "speed", value |-> 500] >>,
      << [key |-> "speed", value |-> 0] >> }

\* Knee bends set_stand_height is called with.
KneeBends == {40, 30}

LoopStep(t, Es, Is) ==
    \/ LoopInit(t)
    \/ \E e \in Es, imu \in Is, sol \in Solves : LoopTick(t, e, imu, sol)
    \/ LoopExit(t)
    \/ \E imu \in Is : LoopReturn(t, imu)

StartStep(c, Ds, Is) ==
    \/ \E d \in Ds : StartCheck(c, d)
    \/ \E imu \in Is : GotoStand(c, imu)
    \/ StartSetDirection(c)
    \/ StartSetRunning(c)
    \/ StartThread(c)

\* stop() when the loop ends within the 2 seconds of the join.
StopPrompt(c) ==
    \/ StopCheck(c)
    \/ StopSetFlag(c)
    \/ StopTestThread(c)
    \/ StopLoadThread(c)
    \/ StopJoin(c)
    \/ StopClear(c)

StopStep(c) ==
    \/ StopPrompt(c)
    \/ StopJoinTimeout(c)

ParamsStep(c, Ps) ==
    \/ \E kwargs \in Ps : SetParams(c, kwargs)
    \/ SetParamsNext(c)

BalanceStep(c) ==
    \/ \E e, cal \in BOOLEAN : EnableBalance(c, e, cal)
    \/ Calibrate(c)

SingleStepStep(c, Ds, Is) ==
    \/ \E d \in Ds : SingleStepBegin(c, d)
    \/ SingleStepSetup(c)
    \/ \E imu \in Is, sol \in Solves : SingleStepTick(c, imu, sol)
    \/ \E imu \in Is : SingleStepReturn(c, imu)

\* Two request contexts call Start, Stop and preview_stand at any time,
\* beside the loop threads; the robot has no IMU.
Next ==
    \/ \E t \in Threads : LoopStep(t, ElapsedSamples, {Level})
    \/ \E c \in Ctx :
        \/ StartStep(c, {"forward"}, {Level})
        \/ StopStep(c)
        \/ PreviewStand(c)
        \/ Finish(c)

\* The robot has no IMU, and ik_interface / trajectory cannot be imported.
InitNoImu == Init /\ ~balance /\ ~ik.available

Spec == InitNoImu /\ [][Next]_vars

\* One request context calls Start, Stop and SetParams, beside the loop
\* threads; the robot has no IMU.
CtlParamCalls ==
    { << [key |-> "step_height", value |-> 25],
         [key |-> "step_length", value |-> 12] >>,
      << [key |-> "cycle_time", value |-> 2000] >>,
      << [key |-> "speed", value |-> 500] >> }

NextParams ==
    \/ \E t \in Threads : LoopStep(t, ElapsedSamples, {Level})
    \/ \E c \in {"c1"} :
        \/ StartStep(c, Directions, {Level})
        \/ StopStep(c)
        \/ ParamsStep(c, CtlParamCalls)
        \/ Finish(c)

SpecParams == InitNoImu /\ [][NextParams]_vars

\* One request context calls Start, Stop, SetParams, SetStandHeight,
\* EnableBalance and SingleStep, beside the loop thread; the robot has an
\* IMU, and the loop ends within the 2 seconds Stop waits for it.
NextSeq ==
    \/ \E t \in Threads : LoopStep(t, ElapsedSamples, ImuRuns)
    \/ \E c \in {"c1"} :
        \/ StartStep(c, Directions, ImuRuns)
        \/ StopPrompt(c)
        \/ ParamsStep(c, ParamCalls)
        \/ \E kb \in KneeBends : SetStandHeight(c, kb)
        \/ BalanceStep(c)
        \/ SingleStepStep(c, Directions, ImuRuns)
        \/ Finish(c)

InitImu == Init /\ balance /\ ~ik.available

SpecSeq == InitImu /\ [][NextSeq]_vars

\* ---- Walking in either mode ------------------------------------------------

\* Outcomes of the two constructors set_mode may call.
Builds == [ik_interface : BOOLEAN, trajectory : BOOLEAN]

\* One request context calls Start and Stop, the mode is switched at any
\* time, beside the loop thread; IK_AVAILABLE is either way.
NextIk ==
    \/ \E t \in Threads : LoopStep(t, ElapsedSamples, {Level})
    \/ \E c \in {"c1"} :
        \/ StartStep(c, {"forward"}, {Level})
        \/ StopPrompt(c)
        \/ Finish(c)
    \/ \E use_ik \in BOOLEAN, built \in Builds : SetMode(use_ik, built)

InitIk == Init /\ ~balance

SpecIk == InitIk /\ [][NextIk]_vars

\* ---- The mode and the IK parameters ----------------------------------------

\* Keyword arguments of the set_params calls made beside the mode switches.
IkParamCalls ==
    { << [key |-> "ik_step_height", value |-> 50] >>,
      << [key |-> "ik_stride_length", value |-> 60] >>,
      << [key |-> "ik_step_height", value |-> 20],
         [key |-> "ik_stride_length", value |-> 30] >>,
      << [key |-> "step_height", value |-> 25] >> }

\* One request context switches the mode and sets parameters, one call
\* after the other; IK_AVAILABLE is either way.
NextMode ==
    \/ \E use_ik \in BOOLEAN, built \in Builds :
            ctx["c1"].pc = "idle" /\ SetMode(use_ik, built)
    \/ ParamsStep("c1", IkParamCalls)
    \/ Finish("c1")

SpecMode == InitIk /\ [][NextMode]_vars

\* ---- The steering and gain setters on their own ---------------------------

\* Rates and gains asked for, permille: inside, on and beyond the limits.
RateArgs == {-2500, -1000, -300, 0, 250, 700, 1000, 1500}
KpArgs == {-500, 0, 500, 1200, 2000, 3000}

NextSteer ==
    \/ \E rate \in RateArgs : SetTurnRate(rate)
    \/ \E rate \in RateArgs : SetLateralRate(rate)
    \/ \E value \in KpArgs : SetBalanceKp(value)

SpecSteer == InitImu /\ [][NextSteer]_vars

\* ---- The stand height on its own ------------------------------------------

\* Knee bends asked for: the whole accepted range, and some beyond each end.
StandBends == -3 .. 83

\* One request context sets the stand height and previews the stand pose.
NextStand ==
    \E c \in {"c1"} :
        \/ \E knee_bend \in StandBends : SetStandHeight(c, knee_bend)
        \/ PreviewStand(c)
        \/ Finish(c)

SpecStand == InitNoImu /\ [][NextStand]_vars

\* ---- The calibration profile on its own -----------------------------------

\* Servo tables of calibration files: a complete calibrated one (left legs
\* mirrored), one that lists three channels only, one without servos.
CalibrationFiles ==
    { [channel \in 0 .. 11 |->
        [DefaultServo(channel) EXCEPT
            !.calibrated = TRUE,
            !.direction = IF channel < 6 THEN 1 ELSE -1,
            !.neutral_angle = 86 + channel]],
      [channel \in 0 .. 2 |->
        [DefaultServo(channel) EXCEPT !.calibrated = TRUE]],
      << >> }

\* Request bodies of update_servo_calibration.
UpdateData ==
    { [calibrated |-> TRUE],
      [direction |-> -1],
      [neutral_angle |-> 95, calibrated |-> TRUE],
      [min_angle |-> 100] }

\* Logical angles asked for, and channels: two of the robot, one of none.
LogicalAngles == {0, 45, 90, 135, 180}
AskedChannels == {0, 11, 12}

NextCal ==
    \/ \E channel \in AskedChannels, angle \in LogicalAngles :
            ApplyToAngle(channel, angle)
    \/ IsFullyCalibrated
    \/ ResetCalibration
    \/ \E servos \in CalibrationFiles : LoadCalibration(servos)
    \/ \E data \in UpdateData : UpdateServoCalibration(0, data)
    \/ AutotuneSetNeutral(11, 85)

SpecCal == InitNoImu /\ [][NextCal]_vars

\* ---- The stability monitor on its own -----------------------------------

\* Tilt readings in whole degrees: on, below and above every default tier.
TiltSamples == {0, 5, 10, 12, 20, 30, -35} \X {0, 5, -20, 25, 30}
Listeners == {"l1", "l2"}
MonDepth == 2

\* Thresholds that differ between pitch and roll.
UnevenThresholds ==
    [warning_pitch |-> 5, warning_roll |-> 20,
     critical_pitch |-> 12, critical_roll |-> 25,
     emergency_pitch |-> 30, emergency_roll |-> 25]

NextMon ==
    \/ \E sample \in TiltSamples, now \in {0, 1},
          raising \in SUBSET Listeners :
            MonUpdate(sample[1], sample[2], now, raising, MonDepth)
    \/ \E now \in {0, 1} : MonReset(now)
    \/ \E l \in Listeners : MonOnStateChange(l)
    \/ \E data \in {DefaultThresholds, UnevenThresholds} :
            MonSetThresholds(data)

SpecMon == InitNoImu /\ [][NextMon]_vars

\* ---- The stability poll from two workers ------------------------------------

\* Two workers serve GET /api/stability at the same time (the robot has an
\* IMU); a listener is registered at some moment.
NextPoll ==
    \/ \E w \in Pollers :
        \/ \E sample \in {<< 0, 0 >>, << 12, 0 >>, << 25, 5 >>},
              now \in {0, 1} :
                PollUpdate(w, sample[1], sample[2], now, MonDepth)
        \/ PollTest(w)
        \/ \E now \in {0, 1} : PollRecord(w, now)
        \/ \E now \in {0, 1} : PollSwitch(w, now)
        \/ \E raising \in SUBSET {"l1"} : PollNotify(w, raising)
    \/ MonOnStateChange("l1")

SpecPoll == InitImu /\ [][NextPoll]_vars

\* ---- The raw IMU readings on their own -----------------------------------

\* Accelerometer readings: level, tilted, on and under the glitch limit.
AccelSamples ==
    [x : {0, 9, 10, -3000}, y : {0, -9, 2000}, z : {0, 5, 9800}]

NextImu ==
    \E ok \in BOOLEAN, accel \in AccelSamples :
        /\ ok \/ accel = [x |-> 0, y |-> 0, z |-> 0]
        /\ ReadRawAngles(ok, accel)

SpecImu == InitNoImu /\ [][NextImu]_vars

\* A monitor that is driven across the warning tier again and again, so that
\* its history fills and overflows.
HistDepth == 160

NextHist ==
    \/ \E sample \in {<< 5, 5 >>, << 12, 0 >>} :
            MonUpdate(sample[1], sample[2],
                      mon.state_start_time + 1, {}, HistDepth)
    \/ /\ mon_out.changes \in {50, 120}   \* history half full; overflowed
       /\ mon.state_history # << >>
       /\ MonReset(mon.last_check_time)

SpecHist == InitNoImu /\ [][NextHist]_vars

\* ------------------------------------------------------------------------
\* Observations the statements below are written in
\* ------------------------------------------------------------------------

\* Context c makes leg or servo writes in this step: the goto_stand of start
\* or single_step, a tick or the return-to-stand of single_step, or
\* preview_stand.
CtxWrites(c) ==
    \/ /\ ctx[c].pc \in {"start_stand", "step_stand", "step_tick", "step_ret"}
       /\ ctx'[c] # ctx[c]
    \/ /\ ctx[c].pc = "idle"
       /\ ctx'[c].pc = "ret"
       /\ ctx'[c].op = "preview_stand"

\* The call op of context c returns res in this step.
Returns(c, op, res) ==
    /\ ctx[c].pc # "ret"
    /\ ctx'[c].pc = "ret"
    /\ ctx'[c].op = op
    /\ ctx'[c].res = res

\* Context c has in hand the result res of its call op.
Returned(c, op, res) ==
    /\ ctx[c].pc = "ret"
    /\ ctx[c].op = op
    /\ ctx[c].res = res

\* A tick by who ("loop" or "single_step") writes the legs in this step.
TickBy(who) == last_tick' # last_tick /\ last_tick'.by = who

\* ------------------------------------------------------------------------
\* C1 .. C5: Start and Stop from concurrent request contexts (Spec)
\* ------------------------------------------------------------------------

\* C1: under any interleaving of Start and Stop calls from concurrent
\* request contexts, at most one tick loop is executing at any time.
C1_AtMostOneLoop == Cardinality(LiveLoops) <= 1

\* C2: while a tick loop is live, no operation of the control surface
\* (preview_stand, SingleStep, Start's move-to-stand) writes a servo: the
\* loop is the only writer.
C2_LoopIsOnlyWriter ==
    [][(\E c \in Ctx : CtxWrites(c)) => LiveLoops = {}]_vars

\* C3: whenever Stop has returned success, the tick loop it waited for has
\* exited, so that loop writes no servo afterwards.
C3_StopMeansLoopExited ==
    \A t \in Threads : th[t].released => ~Live(t)

\* C4: when a Stop that follows a successful Start returns success, every one
\* of the 12 channels holds its stand-pose angle as the last value written.
C4_StopLeavesStandPose ==
    [][\A c \in Ctx :
        (Returns(c, "stop", "True") /\ thread # None)
            => servo_angles' = StandServo(stand_angles)]_vars

\* C5: Start while already Running and Stop while Idle report failure and
\* are no-ops: no servo is written, no thread is created or joined, and
\* running, direction, the stand pose and every other field are unchanged.
C5_RefusedCallsAreNoOps ==
    [][\A c \in Ctx :
        /\ (ctx[c].pc = "idle" /\ ctx'[c].op = "start" /\ running)
            => /\ Returns(c, "start", "False")
               /\ UNCHANGED << gaitState, servoState, th >>
        /\ (ctx[c].pc = "idle" /\ ctx'[c].op = "stop" /\ ~running)
            => /\ Returns(c, "stop", "False")
               /\ UNCHANGED << gaitState, servoState, th >>]_vars

\* C5 happens: a Start was refused while the gait ran, and afterwards a
\* second Stop was refused, the first one having succeeded.
C5_Witness ==
    /\ Returned("c1", "start", "False")
    /\ Returned("c2", "stop", "False")
    /\ \E t \in Threads : th[t].released

\* ------------------------------------------------------------------------
\* C6: the stand move of Start (SpecSeq)
\* ------------------------------------------------------------------------

\* The goto_stand of a start() call runs in this step.
StartGotoStand(c) == ctx[c].pc = "start_stand" /\ ctx'[c].pc = "start_dir"

\* The servo table of the output stage applied to a stand pose with the
\* balance corrections bal (leg -> mdeg): hip = stand hip, knee =
\* int(stand knee + bal), ankle = int(stand ankle - 0.5 * bal).
BalancedStand(pose, bal) ==
    [ch \in Channels |->
        LET l == CHOOSE x \in Legs :
                    ch \in {legs[x].hip, legs[x].knee, legs[x].ankle}
        IN  IF ch = legs[l].hip THEN pose[l].hip
            ELSE IF ch = legs[l].knee
            THEN ToInt(pose[l].knee * Milli + bal[l])
            ELSE ToInt(pose[l].ankle * Milli - DivZ(bal[l] * 500, Milli))]

\* C6 as the spec states it: the 12 values Start's move-to-stand writes are
\* the stand-pose angles exactly, with no balance correction, also when
\* balance is enabled and the body is tilted.
C6_NoBalanceDuringStart ==
    [][\A c \in Ctx :
        StartGotoStand(c) => servo_angles' = StandServo(stand_angles)]_vars

\* C6 as the code has it: the 12 values Start's move-to-stand writes are the
\* stand pose passed through the output stage of a tick, with each leg's
\* balance correction when balance is enabled (0 when it is disabled or the
\* correction cannot be read); they are the stand-pose angles exactly when
\* balance is disabled.
C6_StandThroughOutputStage ==
    [][\A c \in Ctx :
        StartGotoStand(c) =>
            /\ \E imu \in ImuRuns :
                servo_angles' =
                    BalancedStand(stand_angles,
                        [l \in Legs |->
                            IF use_balance /\ imu[l].ok
                            THEN get_correction(imu[l].pitch, imu[l].roll)[l]
                            ELSE 0])
            /\ ~use_balance => servo_angles' = StandServo(stand_angles)]_vars

\* C6 happens: Start has moved the legs to stand with balance enabled and
\* the body tilted, and the values written are not the stand pose.
C6_Witness ==
    \E c \in Ctx :
        /\ ctx[c].pc = "start_dir"
        /\ use_balance
        /\ servo_angles # StandServo(stand_angles)

\* ------------------------------------------------------------------------
\* C7, C8: SetParams beside the running loop (SpecParams)
\* ------------------------------------------------------------------------

\* C7: once a SetParams call has returned, the next tick of the ongoing run
\* computes with the parameters as they now are: step_height, step_length,
\* and the effective cycle time cycle_time / speed.
C7_ParamsUsedByNextTick ==
    [][(TickBy("loop") /\ \A c \in Ctx : ctx[c].pc # "set_params") =>
        /\ last_tick'.step_h = params.step_height
        /\ last_tick'.step_l = params.step_length
        /\ params.speed # 0 =>
                last_tick'.cycle_time = EffectiveCycle(params)]_vars

\* The parameters once the keys kwargs have all been stored over p.
RECURSIVE After(_, _)
After(p, kwargs) ==
    IF kwargs = <<>> THEN p
    ELSE After([p EXCEPT ![Head(kwargs).key] = Head(kwargs).value],
               Tail(kwargs))

\* C8: no tick computes leg angles from a mix of old and new values of one
\* SetParams call: a tick made while a call is storing its keys reads the
\* step parameters either as the call found them or as it will leave them.
C8_NoTornUpdate ==
    [][TickBy("loop") =>
        \A c \in Ctx :
            ctx[c].pc = "set_params" =>
                << last_tick'.step_h, last_tick'.step_l >> \in
                    { << ctx[c].old.step_height, ctx[c].old.step_length >>,
                      << After(params, ctx[c].todo).step_height,
                         After(params, ctx[c].todo).step_length >> }]_vars

\* ------------------------------------------------------------------------
\* C9, C10: the ticks of the loop and of SingleStep (SpecSeq)
\* ------------------------------------------------------------------------

\* C9: in every tick of the loop and of SingleStep each of the four legs is
\* written exactly once, pair A (FL, RR) as swing and pair B (FR, RL) as
\* stance iff cycle_phase < 0.5, the roles swapped otherwise.
C9_DiagonalPairs ==
    last_tick.by # "none" =>
        /\ Len(last_tick.legs) = Cardinality(Legs)
        /\ \A l \in Legs :
            Cardinality({k \in DOMAIN last_tick.legs :
                            last_tick.legs[k].leg = l}) = 1
        /\ \A k \in DOMAIN last_tick.legs :
            last_tick.legs[k].role =
                IF (last_tick.legs[k].leg \in {"FL", "RR"})
                        = (last_tick.cycle_phase < 500)
                THEN "swing" ELSE "stance"

\* C9 happens: a tick of SingleStep in the second half of the cycle.
C9_Witness ==
    /\ last_tick.by = "single_step"
    /\ last_tick.cycle_phase >= 500

\* C10: every SingleStep call that gets past the endpoint's running test
\* returns normally after exactly int(effective_cycle_time / 0.03) ticks,
\* with the stand pose on all four legs, running still false and no thread.
C10_SingleStepCompletes ==
    \A c \in Ctx :
        (ctx[c].pc = "ret" /\ ctx[c].op = "single_step"
                /\ ctx[c].res # "error") =>
            /\ ctx[c].res = "None"
            /\ params.speed # 0
            /\ ctx[c].steps =
                    DivZ(EffectiveCycle(params), SINGLE_STEP_UPDATE_RATE)
            /\ ctx[c].n = ctx[c].steps
            /\ servo_angles = StandServo(stand_angles)
            /\ ~running
            /\ thread = None

\* ------------------------------------------------------------------------
\* C11  update(pitch, roll) classifies without memory
\* ------------------------------------------------------------------------
\* C11: whatever calls came before, the state update(pitch, roll) returns,
\* and leaves as the current state, is fixed by (pitch, roll) and the
\* thresholds in force: emergency if |pitch| > emergency_pitch or
\* |roll| > emergency_roll, else critical, else warning, else stable, all
\* comparisons strict; when the pitch and roll thresholds are equal this is
\* the tier of max(|pitch|, |roll|).
C11_UpdateIsMemoryless ==
    mon_out.op = "update" =>
        LET t == mon.thresholds
            ap == Abs(mon.pitch)
            ar == Abs(mon.roll)
            worst == IF ap >= ar THEN ap ELSE ar
            expected ==
                IF ap > t.emergency_pitch \/ ar > t.emergency_roll
                THEN "emergency"
                ELSE IF ap > t.critical_pitch \/ ar > t.critical_roll
                THEN "critical"
                ELSE IF ap > t.warning_pitch \/ ar > t.warning_roll
                THEN "warning"
                ELSE "stable"
        IN  /\ mon_out.ret = expected
            /\ mon.current_state = expected
            /\ (/\ t.warning_pitch = t.warning_roll
                /\ t.critical_pitch = t.critical_roll
                /\ t.emergency_pitch = t.emergency_roll)
               => expected = IF worst > t.emergency_pitch THEN "emergency"
                             ELSE IF worst > t.critical_pitch THEN "critical"
                             ELSE IF worst > t.warning_pitch THEN "warning"
                             ELSE "stable"
            /\ (t = DefaultThresholds /\ mon.pitch = 5 /\ mon.roll = 5)
               => mon_out.ret = "stable"
            /\ (t = DefaultThresholds /\ mon.pitch = 12 /\ mon.roll = 0)
               => mon_out.ret = "warning"
            /\ (t = DefaultThresholds /\ mon.pitch = 0 /\ mon.roll = 25)
               => mon_out.ret = "critical"
            /\ (t = DefaultThresholds /\ mon.pitch = -35 /\ mon.roll = 0)
               => mon_out.ret = "emergency"

\* A reading exactly on a tier (pitch 20 on the default critical tier) is
\* classified one tier lower, straight after the monitor was in emergency.
C11_Witness ==
    /\ mon_out.op = "update"
    /\ mon.thresholds = DefaultThresholds
    /\ mon.pitch = 20
    /\ mon.roll = 5
    /\ mon.previous_state = "emergency"
    /\ mon_out.ret = "warning"

\* ------------------------------------------------------------------------
\* C12  the state history is capped at 100 entries, oldest evicted first
\* ------------------------------------------------------------------------
\* C12: no call leaves more than 100 entries in the history.  A call that
\* records a state change leaves the entry of that change (the state left,
\* the time spent in it) as the newest one; the entries before it are the
\* old history in its old order, minus the single oldest entry exactly when
\* the old history was already 100 long.
C12_HistoryCapped ==
    [][ LET h == mon.state_history
            h2 == mon'.state_history
            shift == Len(h) + 1 - Len(h2)
        IN  /\ Len(h2) <= max_history_length
            /\ mon_out'.changes = mon_out.changes + 1 =>
                /\ Len(h2) >= 1
                /\ h2[Len(h2)] = << mon.current_state,
                                    mon'.state_start_time - mon.state_start_time >>
                /\ shift = (IF Len(h) = max_history_length THEN 1 ELSE 0)
                /\ \A i \in 1 .. Len(h2) - 1 : h2[i] = h[i + shift] ]_vars

\* The history is full and state change 101 has just been recorded.
C12_Witness ==
    /\ mon_out.op = "update"
    /\ mon_out.changes = max_history_length + 1
    /\ Len(mon.state_history) = max_history_length

\* ------------------------------------------------------------------------
\* C13  a raising listener does not disturb update()
\* ------------------------------------------------------------------------
\* C13: when a listener raised during an update(), the call still returned,
\* and what it returned is the new state, which is the current state; the
\* history's newest entry is the state that was left; and every registered
\* listener, the ones after the raising one too, was called once, in
\* registration order, with (state left, new state, pitch, roll).
C13_ListenerErrorsContained ==
    (/\ mon_out.op = "update"
     /\ \E k \in DOMAIN mon_out.notified : mon_out.notified[k].raised)
    =>  /\ mon_out.ret = mon.current_state
        /\ mon_out.ret = Classify(mon.thresholds, mon.pitch, mon.roll)
        /\ mon_out.ret # mon.previous_state
        /\ Len(mon.state_history) >= 1
        /\ mon.state_history[Len(mon.state_history)][1] = mon.previous_state
        /\ Len(mon_out.notified) = Len(mon.callbacks)
        /\ \A k \in DOMAIN mon.callbacks :
            /\ mon_out.notified[k].listener = mon.callbacks[k]
            /\ mon_out.notified[k].old = mon.previous_state
            /\ mon_out.notified[k].new = mon_out.ret
            /\ mon_out.notified[k].pitch = mon.pitch
            /\ mon_out.notified[k].roll = mon.roll

\* Two listeners are registered, the first one raised, the second was still
\* called and did not raise.
C13_Witness ==
    /\ mon_out.op = "update"
    /\ Len(mon_out.notified) = 2
    /\ mon_out.notified[1].raised
    /\ ~mon_out.notified[2].raised
    /\ mon_out.ret = "critical"

\* ------------------------------------------------------------------------
\* C14  _read_raw_angles falls back on the last good reading
\* ------------------------------------------------------------------------
\* C14: every read returns (none raises).  A read of a valid sample returns
\* that sample's angles; a read of a glitch sample (all three axes under
\* 0.01) or a read that raised returns the angles of the most recent valid
\* sample, (0, 0) when there was none, and leaves the stored last good
\* values as they were.
C14_LastGoodReading ==
    [][ raw_out'.op = "read_raw_angles" =>
        LET a == raw_out'.accel
            glitch == /\ a.x > -GLITCH_LIMIT /\ a.x < GLITCH_LIMIT
                      /\ a.y > -GLITCH_LIMIT /\ a.y < GLITCH_LIMIT
                      /\ a.z > -GLITCH_LIMIT /\ a.z < GLITCH_LIMIT
            bad == ~raw_out'.ok \/ glitch
            last_good == IF raw_out.seen.any
                         THEN RawAngles(raw_out.seen.accel)
                         ELSE << 0, 0 >>
        IN  /\ ~bad => raw_out'.ret = RawAngles(a)
            /\ bad => /\ raw_out'.ret = last_good
                      /\ raw' = raw
            /\ << raw'.last_raw_pitch, raw'.last_raw_roll >>
                    = IF bad THEN last_good ELSE RawAngles(a) ]_vars

\* A glitch sample was read after a tilted valid one: the tilted angles came
\* back.
C14_Witness ==
    /\ raw_out.op = "read_raw_angles"
    /\ raw_out.ok
    /\ raw_out.accel = [x |-> 9, y |-> -9, z |-> 5]
    /\ raw_out.seen.any
    /\ raw_out.ret = RawAngles(raw_out.seen.accel)
    /\ raw_out.ret[1] > 10000
    /\ raw_out.ret # RawAngles(raw_out.accel)

C16_ToPhysical ==
    [][ \A channel \in AskedChannels, angle \in LogicalAngles :
            ApplyToAngle(channel, angle) =>
                /\ profile' = profile
                /\ channel \notin DOMAIN profile => cal_out'.ret = angle
                /\ channel \in DOMAIN profile =>
                    LET servo == profile[channel]
                        v == servo.neutral_angle
                                + servo.direction * (angle - 90)
                    IN  cal_out'.ret =
                            IF v < servo.min_angle THEN servo.min_angle
                            ELSE IF v > servo.max_angle THEN servo.max_angle
                            ELSE v ]_vars

\* Channel 0 has its lower limit raised to 100 and a logical 45 was asked
\* for: the answer is the limit.
C16_Witness ==
    /\ cal_out.op = "apply_to_angle"
    /\ cal_out.channel = 0
    /\ cal_out.angle = 45
    /\ 0 \in DOMAIN profile
    /\ profile[0].min_angle = 100
    /\ cal_out.ret = 100

\* C17: for every calibrated channel of the profile, logical 90 maps to the
\* channel's neutral angle, and over the logical angles 0 .. 180 the mapping
\* is non-decreasing for direction +1 and non-increasing for direction -1.
C17_NeutralAndMonotone ==
    \A c \in DOMAIN profile :
        profile[c].calibrated =>
            /\ apply_to_angle(profile, c, 90) = profile[c].neutral_angle
            /\ \A a, b \in LogicalAngles :
                a <= b =>
                    /\ profile[c].direction = 1 =>
                        apply_to_angle(profile, c, a)
                            <= apply_to_angle(profile, c, b)
                    /\ profile[c].direction = -1 =>
                        apply_to_angle(profile, c, a)
                            >= apply_to_angle(profile, c, b)

\* C18: is_fully_calibrated() answers True exactly when each of the twelve
\* channels 0 .. 11 is in the profile and calibrated, whatever construction,
\* load and updates made the profile.
C18_FullyCalibratedIffAllTwelve ==
    [][ IsFullyCalibrated =>
            ((cal_out'.ret = 1) <=>
                \A channel \in 0 .. 11 :
                    /\ channel \in DOMAIN profile
                    /\ profile[channel].calibrated) ]_vars

\* ------------------------------------------------------------------------
\* C19, C20: the IK mode (SpecIk)
\* ------------------------------------------------------------------------
\* C19: set_mode(True) answers False and leaves use_ik false when the IK
\* modules are not available or a constructor it has to call fails;
\* set_mode(False) always answers True and leaves use_ik false; a set_mode(True)
\* that answers True leaves IK mode on with both objects present, having
\* constructed only the ones that were missing, so that over all calls each
\* of the two is constructed at most once.
C19_SetMode ==
    [][ \A use_ik \in BOOLEAN, built \in Builds :
            SetMode(use_ik, built) =>
                LET fails ==
                        \/ ~ik.available
                        \/ ~ik.ik_interface /\ ~built.ik_interface
                        \/ ~ik.trajectory /\ ~built.trajectory
                IN  /\ (use_ik /\ ~ik.use_ik /\ fails) =>
                        /\ ik_out'.ret = "False"
                        /\ ~ik'.use_ik
                    /\ ~use_ik =>
                        /\ ik_out'.ret = "True"
                        /\ ~ik'.use_ik
                    /\ (use_ik /\ ik_out'.ret = "True") =>
                        /\ ik'.use_ik
                        /\ ik'.ik_interface
                        /\ ik'.trajectory
                        /\ ik'.made.ik_interface = ik.made.ik_interface
                                + (IF ik.ik_interface THEN 0 ELSE 1)
                        /\ ik'.made.trajectory = ik.made.trajectory
                                + (IF ik.trajectory THEN 0 ELSE 1)
                    /\ ik'.made.ik_interface <= 1
                    /\ ik'.made.trajectory <= 1 ]_vars

\* A set_mode(True) failed on the trajectory generator after the solver
\* adapter had been constructed: the engine is in angle mode.
C19_Witness ==
    /\ ik_out.op = "set_mode"
    /\ ik_out.use_ik
    /\ ik_out.ret = "False"
    /\ ik.available
    /\ ik.ik_interface
    /\ ~ik.trajectory
    /\ ~ik.use_ik

\* C20: in a tick of the loop made in IK mode, each leg whose solver call
\* failed is written with what the angle-mode computation gives for that
\* leg and phase; the loop goes on, and use_ik is still true afterwards.
C20_SolverFailureFallsBack ==
    [][ \A t \in Threads, elapsed \in ElapsedSamples, sol \in SolverRuns :
            (ik.use_ik /\ LoopTick(t, elapsed, Level, sol)) =>
                /\ th'[t].pc = "while"
                /\ ik'.use_ik
                /\ \A k \in 1 .. Len(TickOrder) :
                    LET tl == TickLeg(CyclePhase(elapsed, th[t].cycle_time), k)
                        angle_mode ==
                            apply_leg_angles(
                                [cur |-> current_angles, srv |-> servo_angles],
                                tl.leg,
                                IF tl.role = "swing"
                                THEN leg_angles_swing(tl.ph, tl.leg)
                                ELSE leg_angles_stance(tl.ph, tl.leg),
                                BalanceTerm(tl.leg, Level[tl.leg]))
                    IN  ~sol[tl.leg].ok =>
                            \A ch \in {legs[tl.leg].hip, legs[tl.leg].knee,
                                       legs[tl.leg].ankle} :
                                /\ servo_angles'[ch] = angle_mode.srv[ch]
                                /\ current_angles'[ch] = angle_mode.cur[ch]
       ]_vars

\* A tick in IK mode in which the solver failed for the rear left leg only:
\* the front left leg stands at the solver's pose, the rear left one does
\* not.
C20_Witness ==
    /\ ik.use_ik
    /\ last_tick.by = "loop"
    /\ servo_angles[legs["FL"].knee] = 60
    /\ servo_angles[legs["FL"].ankle] = 120
    /\ servo_angles[legs["RL"].knee] # 60
    /\ servo_angles[legs["RL"].ankle] # 120

\* ------------------------------------------------------------------------
\* C21  the setters clamp
\* ------------------------------------------------------------------------
\* C21: whatever the setters are called with, turn_rate and lateral_rate are
\* within [-1, 1] and kp within [0, 2]; each call stores its argument
\* clamped to the range; and a call with the value of the call before it
\* changes nothing.
C21_SettersClamp ==
    [][ /\ turn_rate' >= -1000 /\ turn_rate' <= 1000
        /\ lateral_rate' >= -1000 /\ lateral_rate' <= 1000
        /\ kp' >= 0 /\ kp' <= 2000
        /\ \A rate \in RateArgs :
            LET stored == IF rate < -1000 THEN -1000
                          ELSE IF rate > 1000 THEN 1000 ELSE rate
            IN  /\ SetTurnRate(rate) =>
                    /\ turn_rate' = stored
                    /\ turn_rate = stored => UNCHANGED vars
                /\ SetLateralRate(rate) =>
                    /\ lateral_rate' = stored
                    /\ lateral_rate = stored => UNCHANGED vars
        /\ \A value \in KpArgs :
            LET stored == IF value < 0 THEN 0
                          ELSE IF value > 2000 THEN 2000 ELSE value
            IN  SetBalanceKp(value) =>
                    /\ kp' = stored
                    /\ kp = stored => UNCHANGED vars ]_vars

\* Arguments beyond the limits were given to all three setters.
C21_Witness ==
    /\ turn_rate = 1000
    /\ lateral_rate = -1000
    /\ kp = 2000

\* ------------------------------------------------------------------------
\* C22  turning and the stride of the inside legs
\* ------------------------------------------------------------------------
\* C22: with turn_rate > 0 (turn right) the right legs FR, RR have a smaller
\* stride multiplier than the left legs, with turn_rate < 0 the left legs
\* FL, RL have the smaller one; and when a set_turn_rate call makes
\* |turn_rate| larger on the same side, the multiplier of the inside legs
\* gets strictly smaller and the one of the outside legs does not get
\* smaller.  (Swing and stance use the same multiplier.)
C22_InsideStrideShorter ==
    [][ /\ turn_rate' > 0 =>
            /\ stride_mult("FR")' < stride_mult("FL")'
            /\ stride_mult("RR")' < stride_mult("RL")'
        /\ turn_rate' < 0 =>
            /\ stride_mult("FL")' < stride_mult("FR")'
            /\ stride_mult("RL")' < stride_mult("RR")'
        /\ (turn_rate > 0 /\ turn_rate' > turn_rate) =>
            /\ stride_mult("FR")' < stride_mult("FR")
            /\ stride_mult("FL")' >= stride_mult("FL")
        /\ (turn_rate < 0 /\ turn_rate' < turn_rate) =>
            /\ stride_mult("FL")' < stride_mult("FL")
            /\ stride_mult("FR")' >= stride_mult("FR") ]_vars

\* ------------------------------------------------------------------------
\* C23  what update() changes
\* ------------------------------------------------------------------------
\* C23: an update() whose classification is the current state leaves the
\* history, the state timer and the state as they are and calls no listener.
\* One whose classification differs appends exactly one entry (the state
\* left, the time spent in it), restarts the state timer at the time of the
\* call, makes the classification the current state, and calls each
\* registered listener exactly once, in order, with (old, new, pitch, roll),
\* old being the state left and different from new.
C23_UpdateFrame ==
    [][ mon_out'.op = "update" =>
        LET new == Classify(mon.thresholds, mon'.pitch, mon'.roll)
            h == mon.state_history
            h2 == mon'.state_history
        IN  /\ new = mon.current_state =>
                /\ h2 = h
                /\ mon'.state_start_time = mon.state_start_time
                /\ mon'.current_state = mon.current_state
                /\ mon'.previous_state = mon.previous_state
                /\ mon_out'.notified = << >>
            /\ new # mon.current_state =>
                /\ Len(h2) = Len(h) + 1
                /\ SubSeq(h2, 1, Len(h)) = h
                /\ h2[Len(h2)] = << mon.current_state,
                                    mon'.last_check_time - mon.state_start_time >>
                /\ mon'.state_start_time = mon'.last_check_time
                /\ mon'.current_state = new
                /\ Len(mon_out'.notified) = Len(mon.callbacks)
                /\ \A k \in DOMAIN mon.callbacks :
                    /\ mon_out'.notified[k].listener = mon.callbacks[k]
                    /\ mon_out'.notified[k].old = mon.current_state
                    /\ mon_out'.notified[k].new = new
                    /\ mon_out'.notified[k].old # mon_out'.notified[k].new
                    /\ mon_out'.notified[k].pitch = mon'.pitch
                    /\ mon_out'.notified[k].roll = mon'.roll ]_vars

\* A second state change, made at clock reading 1 after a first one at 0,
\* with two listeners called: the history holds both entries and the timer
\* was restarted.
C23_Witness ==
    /\ mon_out.op = "update"
    /\ Len(mon.state_history) = 2
    /\ mon.state_history[2][2] = 1
    /\ mon.state_start_time = 1
    /\ Len(mon_out.notified) = 2
    /\ mon.current_state # mon.previous_state

\* ------------------------------------------------------------------------
\* C24  the balance term in the output stage
\* ------------------------------------------------------------------------
\* C24: in every leg write of a loop tick the balance term bal is 0 when
\* balance is disabled, when there is no balance controller, or when
\* get_correction raised, and get_correction()[leg] otherwise; the knee
\* target is the computed knee + bal, the ankle target the computed ankle
\* - bal / 2, and the hip target the computed hip.
C24_BalanceTerm ==
    [][ TickBy("loop") =>
        \E imu \in ImuRuns :
            \A k \in 1 .. Len(TickOrder) :
                LET tl == TickLeg(last_tick'.cycle_phase, k)
                    computed == IF tl.role = "swing"
                                THEN leg_angles_swing(tl.ph, tl.leg)
                                ELSE leg_angles_stance(tl.ph, tl.leg)
                    bal == IF ~use_balance \/ ~balance \/ ~imu[tl.leg].ok
                           THEN 0
                           ELSE get_correction(imu[tl.leg].pitch,
                                               imu[tl.leg].roll)[tl.leg]
                IN  /\ current_angles'[legs[tl.leg].hip] = computed.hip
                    /\ current_angles'[legs[tl.leg].knee] = computed.knee + bal
                    /\ current_angles'[legs[tl.leg].ankle] =
                            computed.ankle - DivZ(bal * 500, 1000)
                    /\ servo_angles'[legs[tl.leg].knee] =
                            DivZ(computed.knee + bal, 1000) ]_vars

\* A loop tick was made with balance enabled on a slope (pitch 4, roll -2,
\* kp 0.5): the front left knee target is the computed one - 1.5 degrees,
\* the ankle target the computed one + 0.75.
C24_Witness ==
    /\ last_tick.by = "loop"
    /\ use_balance
    /\ balance
    /\ kp = 500
    /\ LET tl == TickLeg(last_tick.cycle_phase, 1)
       IN  /\ tl.leg = "FL"
           /\ current_angles[legs["FL"].knee] = AngleModeAngles(tl).knee - 1500
           /\ current_angles[legs["FL"].ankle] = AngleModeAngles(tl).ankle + 750

\* ------------------------------------------------------------------------
\* C25  running means a loop is ticking
\* ------------------------------------------------------------------------
\* C25: whenever self.running is set and no start() stands between setting
\* the flag and starting its thread, a _gait_loop thread is alive: the loop
\* does not end with an exception while running stays set, whatever
\* parameters set_params has stored.
C25_RunningMeansTicking ==
    (running /\ \A c \in Ctx : ctx[c].pc # "start_thread")
        => \E t \in Threads : Live(t)

\* ------------------------------------------------------------------------
\* C26  IK mode, the IK objects and the trajectory's config
\* ------------------------------------------------------------------------
\* C26: between the calls of set_mode and set_params, use_ik implies that
\* both ik_interface and trajectory exist, and whenever the trajectory
\* exists its config holds the current ik_step_height and ik_stride_length
\* parameters.
C26_IkObjectsAndConfig ==
    /\ ik.use_ik => (ik.ik_interface /\ ik.trajectory)
    /\ (ik.trajectory /\ ctx["c1"].pc # "set_params") =>
            /\ ik.config.step_height = params.ik_step_height
            /\ ik.config.stride_length = params.ik_stride_length

\* set_params(ik_step_height = 0.05) has returned with a trajectory in
\* place: both the parameter and the trajectory's step height are 50 mm.
C26_Witness ==
    /\ ctx["c1"].op = "set_params"
    /\ ctx["c1"].pc = "ret"
    /\ ik.trajectory
    /\ params.ik_step_height = 50
    /\ ik.config.step_height = 50

\* ------------------------------------------------------------------------
\* C27  update() from two workers at the same time
\* ------------------------------------------------------------------------
\* C27: with update() running in two workers at once every state change is
\* recorded once: no listener is called with an old state equal to the new
\* one, and every history entry names a state other than the one entered
\* when it was left (the next entry's state, or the current state for the
\* last entry once the change is complete).
C27_EachChangeOnce ==
    LET h == mon.state_history
    IN  /\ \A k \in DOMAIN mon_out.notified :
                mon_out.notified[k].old # mon_out.notified[k].new
        /\ \A i \in 1 .. Len(h) - 1 : h[i][1] # h[i + 1][1]
        /\ (h # << >> /\ \A w \in Pollers : poll[w].pc # "switch")
                => h[Len(h)][1] # mon.current_state

\* ------------------------------------------------------------------------
\* C28  enable_balance(True, True) while the gait runs
\* ------------------------------------------------------------------------
\* C28: while enable_balance(enable = True, calibrate = True) has not yet
\* finished the IMU calibration, no tick of the loop applies a balance
\* correction: the knee and ankle targets of every leg are the computed
\* ones.
C28_CalibrateBeforeEnable ==
    [][ (TickBy("loop") /\ \E c \in Ctx : ctx[c].pc = "calibrate") =>
        \A k \in 1 .. Len(TickOrder) :
            LET tl == TickLeg(last_tick'.cycle_phase, k)
                computed == AngleModeAngles(tl)
            IN  /\ current_angles'[legs[tl.leg].knee] = computed.knee
                /\ current_angles'[legs[tl.leg].ankle] = computed.ankle ]_vars

\* ------------------------------------------------------------------------
\* C29  the stand pose stays inside the servo range
\* ------------------------------------------------------------------------
\* C29: after any sequence of set_stand_height calls, every stand angle
\* (hip, knee and ankle of the four legs) lies within [0, 180].
C29_StandAnglesInRange ==
    \A l \in Legs :
        /\ stand_angles[l].hip \in 0 .. 180
        /\ stand_angles[l].knee \in 0 .. 180
        /\ stand_angles[l].ankle \in 0 .. 180

\* ------------------------------------------------------------------------
\* C30  reset()
\* ------------------------------------------------------------------------
\* C30: reset() leaves the monitor stable with previous state stable, pitch
\* and roll 0 and an empty history; the thresholds and the registered
\* listeners are as before; no listener is called and no history entry is
\* recorded, whatever the state was.
C30_ResetFrame ==
    [][ mon_out'.op = "reset" =>
        /\ mon'.current_state = "stable"
        /\ mon'.previous_state = "stable"
        /\ mon'.pitch = 0
        /\ mon'.roll = 0
        /\ mon'.state_history = << >>
        /\ mon'.thresholds = mon.thresholds
        /\ mon'.callbacks = mon.callbacks
        /\ mon_out'.notified = << >> ]_vars

\* reset() was called at clock reading 1 after the one state change made
\* since construction (so out of a state other than stable), with two
\* listeners registered and the thresholds changed.
C30_Witness ==
    /\ mon_out.op = "reset"
    /\ mon_out.changes = 1
    /\ mon.state_start_time = 1
    /\ mon.current_state = "stable"
    /\ mon.state_history = << >>
    /\ Len(mon.callbacks) = 2
    /\ mon.thresholds = UnevenThresholds

====
